---- MODULE Spec2Model ----
(***************************************************************************)
(* Shard-aware schema-migration propagation (django-table-sharding).       *)
(*                                                                         *)
(* The model follows management/commands/migrate.py: Command.handle        *)
(* classifies the migration plan into four worklists, lets the host        *)
(* migration change the source table, and then calls copy_table_changes,   *)
(* copy_unique_together, remove_unique_together and rename_fields, which   *)
(* read the MySQL catalog and issue DDL to every table get_sharded_tables  *)
(* returns.  Names are sequences of characters, so that LIKE patterns,     *)
(* the "_id" and "_uniq" conventions and '%s_%s' formatting are computed.  *)
(***************************************************************************)
EXTENDS Integers, Sequences, FiniteSets, TLC

VARIABLES
    db,          \* the MySQL catalog: table name -> [cols, fks, idx]
    plan,        \* the migration plan: a sequence of operations
    pc,          \* position of Command.handle
    model_changes,            \* worklist (db_table, field_name, default_value, max_length)
    add_unique_togethers,     \* worklist (db_table, field_list)
    remove_unique_togethers,  \* worklist (db_table,)
    rename_fields,            \* worklist (db_table, old_name, new_name)
    item,        \* index of the next item of the current worklist
    log,         \* every statement run_sql was given, in order, with its outcome
    calls,       \* every reconciliation call made: its arguments, log span, catalog before
    failAt,      \* number of the statement whose execution raises (0: none)
    connFailAt,  \* number of the call whose connections[db].cursor() raises (0: none)
    meta_db_table,  \* Lead._meta.db_table: one attribute, shared by every context
    contexts,    \* each execution context of the application: where it is, the table
                 \* it selected, the table its query went to
    bulk         \* the last bulk_create call: its arguments, the batches it issued,
                 \* the exception it ended with

vars == <<db, plan, pc, model_changes, add_unique_togethers,
          remove_unique_togethers, rename_fields, item, log, calls, failAt,
          connFailAt, meta_db_table, contexts, bulk>>

---------------------------------------------------------------------------
(* Bounds *)

\* most shard tables a_l_1 .. a_l_N that exist
MaxShards == 2
\* most operations in one migration plan
MaxPlanLen == 2
\* most execution contexts (threads) that use the Lead model at once
MaxContexts == 2

---------------------------------------------------------------------------
(* Names *)

\* v's value, computed once, given to F (an assignment `x = v` followed by F)
Let(v, F(_)) == CHOOSE y \in {F(x) : x \in {v}} : TRUE

\* '%s_%s' % (a, b)
Join_(a, b) == a \o <<"_">> \o b

\* '%s_id' % field_name
WithId(field_name) == field_name \o <<"_", "i", "d">>

Digit(i) == <<"0", "1", "2", "3", "4", "5", "6", "7", "8", "9">>[i + 1]

\* the table suffix an application passes for shard number i
Suffix(i) == IF i < 10 THEN <<Digit(i)>> ELSE <<Digit(i \div 10), Digit(i % 10)>>

AppLabel == <<"a">>
\* lower-cased model class names: Lead (sharded), LeadNote, Owner and T_Id (not sharded)
LeadModel == <<"l">>
NoteModel == <<"l", "n">>
OwnerModel == <<"o">>
TidModel == <<"t", "_", "i", "d">>

\* meta.db_table of a model: app_label + "_" + model name
DbTable(model) == Join_(AppLabel, model)

\* the physical table of shard i of a model
ShardTable(model, i) == Join_(DbTable(model), Suffix(i))

BaseTable == DbTable(LeadModel)
NoteTable == DbTable(NoteModel)
OwnerTable == DbTable(OwnerModel)
TidTable == DbTable(TidModel)

\* byte order of the characters used in names (MySQL sorts SHOW TABLES by name)
CharOrder == <<"0", "1", "2", "3", "4", "5", "6", "7", "8", "9", "_",
               "a", "b", "d", "f", "h", "i", "k", "l", "n", "o", "q", "s", "t", "u">>

CharRank(c) == CHOOSE i \in 1..Len(CharOrder) : CharOrder[i] = c

RECURSIVE NameLess(_, _)
NameLess(a, b) ==
    IF a = <<>> THEN b # <<>>
    ELSE IF b = <<>> THEN FALSE
    ELSE IF Head(a) = Head(b) THEN NameLess(Tail(a), Tail(b))
    ELSE CharRank(Head(a)) < CharRank(Head(b))

RECURSIVE SortNames(_)
SortNames(S) ==
    IF S = {} THEN <<>>
    ELSE LET m == CHOOSE x \in S : \A y \in S \ {x} : NameLess(x, y)
         IN <<m>> \o SortNames(S \ {m})

\* SQL LIKE: "%" matches any run of characters, "_" any one character
RECURSIVE Like(_, _)
Like(s, p) ==
    IF p = <<>> THEN s = <<>>
    ELSE IF Head(p) = "%" THEN Like(s, Tail(p)) \/ (s # <<>> /\ Like(Tail(s), p))
    ELSE s # <<>> /\ (Head(p) = "_" \/ Head(p) = Head(s)) /\ Like(Tail(s), Tail(p))

\* '_'.join(list)
RECURSIVE JoinAll(_, _)
JoinAll(list, sep) ==
    IF list = <<>> THEN <<>>
    ELSE IF Len(list) = 1 THEN list[1]
    ELSE list[1] \o sep \o JoinAll(Tail(list), sep)

\* str.replace(old, new) on a name: every occurrence of old, left to right
IsPrefix(p, s) == Len(p) <= Len(s) /\ SubSeq(s, 1, Len(p)) = p

RECURSIVE Replace(_, _, _)
Replace(s, old, new) ==
    IF s = <<>> THEN <<>>
    ELSE IF IsPrefix(old, s)
         THEN new \o Replace(SubSeq(s, Len(old) + 1, Len(s)), old, new)
         ELSE <<Head(s)>> \o Replace(Tail(s), old, new)

---------------------------------------------------------------------------
(* Python values of the plan, and MySQL column types *)

\* a Python value: its class and its str()
PyTrue == [t |-> "bool", v |-> "True"]
PyFalse == [t |-> "bool", v |-> "False"]
PyNone == [t |-> "NoneType", v |-> "None"]
PyStr(v) == [t |-> "str", v |-> v]
\* django.db.models.fields.NOT_PROVIDED, the default of a field without one
NOT_PROVIDED == [t |-> "type", v |-> "NOT_PROVIDED"]

\* str(value), as the pieces the code searches it for
Str(value) ==
    IF value.t = "type"
    THEN <<"<class 'django.db.models.fields.", value.v, "'>">>
    ELSE <<value.v>>

\* `piece in text`
Contains(text, piece) == \E i \in 1..Len(text) : text[i] = piece

\* COLUMN_TYPE strings
Varchar(n) == <<"varchar", "(", n, ")">>
IntType == <<"int">>
BigIntType == <<"bigint">>
TinyInt1 == <<"tinyint", "(", "1", ")">>
DateTime6 == <<"datetime", "(", "6", ")">>

\* COLUMN_DEFAULT of a column without a default
NoDefault == <<>>

\* whether MySQL accepts literal lit as the DEFAULT of a column of this type
DefaultFits(type, lit) ==
    IF type[1] \in {"int", "bigint", "tinyint"} THEN lit \in {<<"0">>, <<"1">>}
    ELSE IF type[1] = "datetime" THEN FALSE
    ELSE TRUE

---------------------------------------------------------------------------
(* The statements the command builds *)

\* 'SHOW TABLES LIKE "%s%%"'
ShowTablesLike(prefix) == [op |-> "SHOW TABLES LIKE", pattern |-> prefix \o <<"%">>]

\* SELECT ... FROM INFORMATION_SCHEMA.COLUMNS WHERE TABLE_NAME = .. AND COLUMN_NAME = ..
SelectColumn(table, column) == [op |-> "SELECT COLUMNS", table |-> table, column |-> column]

\* SELECT CONSTRAINT_NAME FROM INFORMATION_SCHEMA.KEY_COLUMN_USAGE WHERE COLUMN_NAME = ..
\* AND REFERENCED_TABLE_NAME IS NOT NULL AND TABLE_NAME = ..
SelectForeignKey(column, table) ==
    [op |-> "SELECT KEY_COLUMN_USAGE", table |-> table, column |-> column]

\* SHOW INDEX FROM .. WHERE COLUMN_NAME = ".." AND KEY_NAME NOT LIKE "%_uniq"
ShowIndex(table, column) == [op |-> "SHOW INDEX", table |-> table, column |-> column]

\* SELECT CONSTRAINT_NAME FROM INFORMATION_SCHEMA.TABLE_CONSTRAINTS WHERE TABLE_NAME = ..
\* AND CONSTRAINT_TYPE = "UNIQUE" AND CONSTRAINT_NAME LIKE "%_uniq"
SelectUniqConstraints(table) == [op |-> "SELECT TABLE_CONSTRAINTS", table |-> table]

\* ALTER TABLE .. ADD COLUMN .. ..  (default: {} without a DEFAULT clause, else {literal})
AddColumn(table, column, type, default) ==
    [op |-> "ADD COLUMN", table |-> table, column |-> column, type |-> type,
     default |-> default]

DropForeignKey(table, name) == [op |-> "DROP FOREIGN KEY", table |-> table, name |-> name]

DropColumn(table, column) == [op |-> "DROP COLUMN", table |-> table, column |-> column]

\* ALTER TABLE .. CHANGE old new type
ChangeColumn(table, old, new, type) ==
    [op |-> "CHANGE", table |-> table, column |-> old, new |-> new, type |-> type]

ModifyColumn(table, column, type) ==
    [op |-> "MODIFY", table |-> table, column |-> column, type |-> type]

SetDefault(table, column, lit) ==
    [op |-> "SET DEFAULT", table |-> table, column |-> column, default |-> {lit}]

\* ALTER TABLE .. ADD FOREIGN KEY (..) REFERENCES ..(id)
AddForeignKey(table, column, ref) ==
    [op |-> "ADD FOREIGN KEY", table |-> table, column |-> column, ref |-> ref]

DropIndex(table, name) == [op |-> "DROP INDEX", table |-> table, name |-> name]

AddIndex(table, column) == [op |-> "ADD INDEX", table |-> table, column |-> column]

AddUnique(table, column) == [op |-> "ADD UNIQUE", table |-> table, column |-> column]

\* CREATE UNIQUE INDEX name ON table(columns)
CreateUniqueIndex(name, table, columns) ==
    [op |-> "CREATE UNIQUE INDEX", table |-> table, name |-> name, columns |-> columns]

\* the statements that change a table
DDL == {"ADD COLUMN", "DROP FOREIGN KEY", "DROP COLUMN", "CHANGE", "MODIFY", "SET DEFAULT",
        "ADD FOREIGN KEY", "DROP INDEX", "ADD INDEX", "ADD UNIQUE", "CREATE UNIQUE INDEX"}

---------------------------------------------------------------------------
(* What MySQL does with a statement.  A catalog d maps each existing table *)
(* to [cols, fks, idx]: cols a set of [name, type, nullable, default],     *)
(* fks a set of [name, column, ref], idx a set of [name, cols, non_unique]. *)

HasTable(d, t) == t \in DOMAIN d

ColumnsNamed(d, t, c) == IF HasTable(d, t) THEN {x \in d[t].cols : x.name = c} ELSE {}

HasColumn(d, t, c) == ColumnsNamed(d, t, c) # {}

TheColumn(d, t, c) == CHOOSE x \in d[t].cols : x.name = c

IndexNames(d, t) == {x.name : x \in d[t].idx}

\* the indexes of t that cover column c
IndexesOn(d, t, c) == {x \in d[t].idx : \E i \in 1..Len(x.cols) : x.cols[i] = c}

\* a set of records with distinct names, as rows in name order
RowsByName(S) ==
    LET names == SortNames({x.name : x \in S})
    IN [i \in 1..Len(names) |-> CHOOSE x \in S : x.name = names[i]]

\* the name MySQL gives an index created without one: the column's name, or
\* the column's name with _2, _3, ... when that is taken
AutoIndexName(d, t, c) ==
    IF c \notin IndexNames(d, t) THEN c
    ELSE LET k == CHOOSE k \in 2..(Cardinality(d[t].idx) + 2) :
                      /\ Join_(c, Suffix(k)) \notin IndexNames(d, t)
                      /\ \A j \in 2..(k - 1) : Join_(c, Suffix(j)) \in IndexNames(d, t)
         IN Join_(c, Suffix(k))

\* the name InnoDB gives a foreign key created without one: <table>_ibfk_<n>
AutoForeignKeyName(d, t) ==
    LET used == {x.name : x \in d[t].fks}
        k == CHOOSE k \in 1..(Cardinality(used) + 1) :
                 /\ Join_(Join_(t, <<"i", "b", "f", "k">>), Suffix(k)) \notin used
                 /\ \A j \in 1..(k - 1) :
                        Join_(Join_(t, <<"i", "b", "f", "k">>), Suffix(j)) \in used
    IN Join_(Join_(t, <<"i", "b", "f", "k">>), Suffix(k))

RenameIn(cols, old, new) == [i \in 1..Len(cols) |-> IF cols[i] = old THEN new ELSE cols[i]]

Without(cols, c) == SelectSeq(cols, LAMBDA x : x # c)

\* the outcome of a statement: whether it succeeded, its rows, the catalog after it
Failed(d) == [ok |-> FALSE, rows |-> <<>>, db |-> d]
Rows(d, rows) == [ok |-> TRUE, rows |-> rows, db |-> d]
Changed(d, t, rec) == [ok |-> TRUE, rows |-> <<>>, db |-> [d EXCEPT ![t] = rec]]

ExecQuery(d, q) ==
    CASE q.op = "SHOW TABLES LIKE" ->
            Rows(d, SortNames({t \in DOMAIN d : Like(t, q.pattern)}))
      [] q.op = "SELECT COLUMNS" ->
            Rows(d, RowsByName(ColumnsNamed(d, q.table, q.column)))
      [] q.op = "SELECT KEY_COLUMN_USAGE" ->
            IF HasTable(d, q.table)
            THEN Rows(d, RowsByName({x \in d[q.table].fks : x.column = q.column}))
            ELSE Rows(d, <<>>)
      [] q.op = "SHOW INDEX" ->
            IF HasTable(d, q.table)
            THEN Rows(d, RowsByName({x \in IndexesOn(d, q.table, q.column) :
                                        ~Like(x.name, <<"%", "_", "u", "n", "i", "q">>)}))
            ELSE Failed(d)
      [] q.op = "SELECT TABLE_CONSTRAINTS" ->
            IF HasTable(d, q.table)
            THEN Rows(d, RowsByName({x \in d[q.table].idx :
                                        /\ x.non_unique = 0
                                        /\ Like(x.name, <<"%", "_", "u", "n", "i", "q">>)}))
            ELSE Rows(d, <<>>)

ExecColumnDDL(d, q) ==
    LET t == q.table
        T == d[t]
    IN
    CASE q.op = "ADD COLUMN" ->
            IF HasColumn(d, t, q.column)
               \/ \E lit \in q.default : ~DefaultFits(q.type, lit)
            THEN Failed(d)
            ELSE Changed(d, t, [T EXCEPT !.cols = @ \cup
                    {[name |-> q.column, type |-> q.type, nullable |-> "YES",
                      default |-> IF q.default = {} THEN NoDefault
                                  ELSE CHOOSE lit \in q.default : TRUE]}])
      [] q.op = "DROP COLUMN" ->
            IF ~HasColumn(d, t, q.column)
               \/ Cardinality(T.cols) = 1
               \/ \E f \in T.fks : f.column = q.column
            THEN Failed(d)
            ELSE Changed(d, t, [T EXCEPT
                    !.cols = {x \in @ : x.name # q.column},
                    !.idx = {[x EXCEPT !.cols = Without(@, q.column)] :
                                x \in {y \in @ : Without(y.cols, q.column) # <<>>}}])
      [] q.op = "CHANGE" ->
            IF ~HasColumn(d, t, q.column)
               \/ (q.new # q.column /\ HasColumn(d, t, q.new))
            THEN Failed(d)
            ELSE Changed(d, t, [T EXCEPT
                    !.cols = {x \in @ : x.name # q.column} \cup
                             {[name |-> q.new, type |-> q.type, nullable |-> "YES",
                               default |-> NoDefault]},
                    !.fks = {[x EXCEPT !.column = IF @ = q.column THEN q.new ELSE @] :
                                x \in @},
                    !.idx = {[x EXCEPT !.cols = RenameIn(@, q.column, q.new)] : x \in @}])
      [] q.op = "MODIFY" ->
            IF ~HasColumn(d, t, q.column)
            THEN Failed(d)
            ELSE Changed(d, t, [T EXCEPT
                    !.cols = {x \in @ : x.name # q.column} \cup
                             {[name |-> q.column, type |-> q.type, nullable |-> "YES",
                               default |-> NoDefault]}])
      [] q.op = "SET DEFAULT" ->
            IF ~HasColumn(d, t, q.column)
               \/ \E lit \in q.default : ~DefaultFits(TheColumn(d, t, q.column).type, lit)
            THEN Failed(d)
            ELSE Changed(d, t, [T EXCEPT
                    !.cols = {x \in @ : x.name # q.column} \cup
                             {[TheColumn(d, t, q.column) EXCEPT
                                 !.default = CHOOSE lit \in q.default : TRUE]}])

ExecKeyDDL(d, q) ==
    LET t == q.table
        T == d[t]
    IN
    CASE q.op = "DROP FOREIGN KEY" ->
            IF ~\E f \in T.fks : f.name = q.name
            THEN Failed(d)
            ELSE Changed(d, t, [T EXCEPT !.fks = {f \in @ : f.name # q.name}])
      [] q.op = "ADD FOREIGN KEY" ->
            IF ~HasColumn(d, t, q.column)
               \/ ~HasColumn(d, q.ref, <<"i", "d">>)
            THEN Failed(d)
            ELSE Changed(d, t, [T EXCEPT
                    !.fks = @ \cup {[name |-> AutoForeignKeyName(d, t),
                                     column |-> q.column, ref |-> q.ref]},
                    \* InnoDB creates the index the constraint needs when none exists
                    !.idx = IF \E x \in @ : x.cols[1] = q.column THEN @
                            ELSE @ \cup {[name |-> AutoIndexName(d, t, q.column),
                                          cols |-> <<q.column>>, non_unique |-> 1]}])
      [] q.op = "DROP INDEX" ->
            IF ~\E x \in T.idx : x.name = q.name
            THEN Failed(d)
            ELSE LET x == CHOOSE x \in T.idx : x.name = q.name
                 IN  \* an index a foreign key needs cannot be dropped
                     IF /\ \E f \in T.fks : f.column = x.cols[1]
                        /\ ~\E y \in T.idx \ {x} : y.cols[1] = x.cols[1]
                     THEN Failed(d)
                     ELSE Changed(d, t, [T EXCEPT !.idx = @ \ {x}])
      [] q.op \in {"ADD INDEX", "ADD UNIQUE"} ->
            IF ~HasColumn(d, t, q.column)
            THEN Failed(d)
            ELSE Changed(d, t, [T EXCEPT !.idx = @ \cup
                    {[name |-> AutoIndexName(d, t, q.column), cols |-> <<q.column>>,
                      non_unique |-> IF q.op = "ADD INDEX" THEN 1 ELSE 0]}])
      [] q.op = "CREATE UNIQUE INDEX" ->
            IF \/ \E x \in T.idx : x.name = q.name
               \/ \E i \in 1..Len(q.columns) : ~HasColumn(d, t, q.columns[i])
               \/ q.columns = <<>>
            THEN Failed(d)
            ELSE Changed(d, t, [T EXCEPT !.idx = @ \cup
                    {[name |-> q.name, cols |-> q.columns, non_unique |-> 0]}])

\* cursor.execute(sql); cursor.fetchall()
Execute(d, q) ==
    IF q.op \notin DDL THEN ExecQuery(d, q)
    ELSE IF ~HasTable(d, q.table) THEN Failed(d)
    ELSE IF q.op \in {"ADD COLUMN", "DROP COLUMN", "CHANGE", "MODIFY", "SET DEFAULT"}
         THEN ExecColumnDDL(d, q)
         ELSE ExecKeyDDL(d, q)

---------------------------------------------------------------------------
(* Command.run_sql, Command.get_sharded_tables.  A context c carries the   *)
(* catalog, the statement log, the rows of the last statement and the      *)
(* `created` flag of copy_table_changes, and whether the cursor the call   *)
(* obtained has been closed.                                               *)

Ctx(d, l) == [db |-> d, log |-> l, rows |-> <<>>, created |-> FALSE, closed |-> FALSE]

\* try: cursor.close()
CloseCursor(c) == [c EXCEPT !.closed = TRUE]

\* variant: a statement that raised is executed a second time
RunSql_Retry(c0, sql) ==
    Let(c0, LAMBDA c :
    Let(IF Len(c.log) + 1 = failAt THEN Failed(c.db) ELSE Execute(c.db, sql), LAMBDA r :
        IF r.ok
        THEN [c EXCEPT !.db = r.db, !.rows = r.rows,
                       !.log = Append(@, [sql |-> sql, ok |-> TRUE, rows |-> Len(r.rows)])]
        ELSE Let(Execute(c.db, sql), LAMBDA r2 :
             [c EXCEPT !.db = r2.db, !.rows = r2.rows,
                       !.log = Append(Append(@, [sql |-> sql, ok |-> FALSE, rows |-> 0]),
                                      [sql |-> sql, ok |-> r2.ok, rows |-> Len(r2.rows)])])))

\* run_sql: execute, return the rows; on any exception return no rows
RunSql(c0, sql) ==
    Let(c0, LAMBDA c :
    Let(IF Len(c.log) + 1 = failAt THEN Failed(c.db) ELSE Execute(c.db, sql), LAMBDA r :
        [c EXCEPT !.db = r.db,
                  !.rows = r.rows,
                  !.log = Append(@, [sql |-> sql, ok |-> r.ok, rows |-> Len(r.rows)])]))

\* variant: db_table itself is kept among the rows
GetShardedTables_Unfiltered(c, db_table) == RunSql(c, ShowTablesLike(db_table))

\* get_sharded_tables: the rows of SHOW TABLES LIKE "<db_table>%" but db_table
GetShardedTables(c, db_table) ==
    Let(RunSql(c, ShowTablesLike(db_table)), LAMBDA r :
        [r EXCEPT !.rows = IF Len(r.rows) > 0
                           THEN SelectSeq(r.rows, LAMBDA row : row # db_table)
                           ELSE <<>>])

\* apps.get_models(): name and db_table of every model, in registration order
AllModels == << [name |-> LeadModel, db_table |-> BaseTable, sharded |-> TRUE],
                [name |-> NoteModel, db_table |-> NoteTable, sharded |-> FALSE],
                [name |-> OwnerModel, db_table |-> OwnerTable, sharded |-> FALSE],
                [name |-> TidModel, db_table |-> TidTable, sharded |-> FALSE] >>

---------------------------------------------------------------------------
(* Command.rename_fields *)

RECURSIVE ChangeEach(_, _, _, _, _)
ChangeEach(c, tables, old_field, new_field, column_type) ==
    IF tables = <<>> THEN c
    ELSE ChangeEach(RunSql(c, ChangeColumn(Head(tables), old_field, new_field, column_type)),
                    Tail(tables), old_field, new_field, column_type)

RenameFields(c, db_table, old_field, new_field) ==
    Let(GetShardedTables(c, db_table), LAMBDA g :
    Let(RunSql(g, SelectColumn(db_table, new_field)), LAMBDA r :
        IF Len(r.rows) > 0
        THEN ChangeEach(r, g.rows, old_field, new_field, r.rows[1].type)
        ELSE r))

---------------------------------------------------------------------------
(* Command.compare_indexes *)

RECURSIVE ReplaceIndexEach(_, _, _, _)
ReplaceIndexEach(c, tables, field_name, unique_row) ==
    IF tables = <<>> THEN c
    ELSE Let(RunSql(c, ShowIndex(Head(tables), field_name)), LAMBDA r :
         Let(IF Len(r.rows) > 0 THEN RunSql(r, DropIndex(Head(tables), field_name)) ELSE r,
             LAMBDA d :
         ReplaceIndexEach(IF unique_row = 1
                          THEN RunSql(d, AddIndex(Head(tables), field_name))
                          ELSE RunSql(d, AddUnique(Head(tables), field_name)),
                          Tail(tables), field_name, unique_row)))

RECURSIVE DropIndexEach(_, _, _)
DropIndexEach(c, tables, field_name) ==
    IF tables = <<>> THEN c
    ELSE Let(RunSql(c, ShowIndex(Head(tables), field_name)), LAMBDA r :
         DropIndexEach(IF Len(r.rows) > 0
                       THEN RunSql(r, DropIndex(Head(tables), field_name))
                       ELSE r,
                       Tail(tables), field_name))

CompareIndexes(c, db_table, tables, field_name) ==
    Let(RunSql(c, ShowIndex(db_table, field_name)), LAMBDA r :
        IF Len(r.rows) > 0
        THEN ReplaceIndexEach(r, tables, field_name, r.rows[1].non_unique)
        ELSE DropIndexEach(r, tables, field_name))

---------------------------------------------------------------------------
(* Command.copy_table_changes *)

\* the host boolean as the default literal
\* variant: the literal is the host's token
BoolLiteral_HostToken(default_value) == <<default_value.v>>

BoolLiteral(default_value) == IF default_value = PyTrue THEN <<"1">> ELSE <<"0">>

\* variant: the nullable branch is skipped
AddDefaultClause_IgnoreNullable(nullable, data_type, default_value) ==
    IF default_value = PyTrue \/ default_value = PyFalse
    THEN {IF default_value = PyTrue THEN <<"1">> ELSE <<"0">>}
    ELSE IF ~Contains(data_type, "datetime") /\ ~Contains(Str(default_value), "NOT_PROVIDED")
         THEN {<<default_value.v>>}
    ELSE {}

\* the DEFAULT clause of ADD COLUMN (lines 193-224): {} for none, else {literal}
AddDefaultClause(nullable, data_type, default_value) ==
    IF nullable = "YES" THEN {}
    ELSE IF default_value = PyTrue \/ default_value = PyFalse
         THEN {BoolLiteral(default_value)}
    ELSE IF ~Contains(data_type, "datetime") /\ ~Contains(Str(default_value), "NOT_PROVIDED")
         THEN {<<default_value.v>>}
    ELSE {}

\* variant: the column is added whatever the existence check returns
RECURSIVE AddColumnEach_Unchecked(_, _, _, _, _, _)
AddColumnEach_Unchecked(c, tables, field_name, column_name, data_type, clause) ==
    IF tables = <<>> THEN c
    ELSE Let(RunSql(c, SelectColumn(Head(tables), field_name)), LAMBDA r :
         AddColumnEach_Unchecked(
             [RunSql(r, AddColumn(Head(tables), column_name, data_type, clause))
                 EXCEPT !.created = TRUE],
             Tail(tables), field_name, column_name, data_type, clause))

\* for table in tables: add the column where the existence check finds none
RECURSIVE AddColumnEach(_, _, _, _, _, _)
AddColumnEach(c, tables, field_name, column_name, data_type, clause) ==
    IF tables = <<>> THEN c
    ELSE Let(RunSql(c, SelectColumn(Head(tables), field_name)), LAMBDA r :
         AddColumnEach(IF Len(r.rows) = 0
                       THEN [RunSql(r, AddColumn(Head(tables), column_name, data_type, clause))
                                EXCEPT !.created = TRUE]
                       ELSE r,
                       Tail(tables), field_name, column_name, data_type, clause))

\* variant: the column is dropped before its foreign key
RECURSIVE DropColumnEach_ColumnFirst(_, _, _)
DropColumnEach_ColumnFirst(c, tables, field_name) ==
    IF tables = <<>> THEN c
    ELSE Let(RunSql(c, SelectForeignKey(field_name, Head(tables))), LAMBDA r :
         Let(RunSql(r, DropColumn(Head(tables), field_name)), LAMBDA k :
         DropColumnEach_ColumnFirst(
             IF Len(r.rows) > 0
             THEN RunSql(k, DropForeignKey(Head(tables), r.rows[1].name))
             ELSE k,
             Tail(tables), field_name)))

\* for table in tables: drop the column's foreign key, then the column
RECURSIVE DropColumnEach(_, _, _)
DropColumnEach(c, tables, field_name) ==
    IF tables = <<>> THEN c
    ELSE Let(RunSql(c, SelectForeignKey(field_name, Head(tables))), LAMBDA r :
         Let(IF Len(r.rows) > 0
             THEN RunSql(r, DropForeignKey(Head(tables), r.rows[1].name))
             ELSE r, LAMBDA k :
         DropColumnEach(RunSql(k, DropColumn(Head(tables), field_name)),
                        Tail(tables), field_name)))

RECURSIVE ModifyEach(_, _, _, _)
ModifyEach(c, tables, column_name, column_type) ==
    IF tables = <<>> THEN c
    ELSE ModifyEach(RunSql(c, ModifyColumn(Head(tables), column_name, column_type)),
                    Tail(tables), column_name, column_type)

\* the default as the loop of lines 264-274 sees it: True and False become '1' and '0'
TranslateDefault(default_value) ==
    IF default_value = PyTrue \/ default_value = PyFalse
    THEN PyStr(BoolLiteral(default_value)[1])
    ELSE default_value

\* lines 269-274: the statement for one table
SetDefaultOne(c, table, column_name, column_type, value) ==
    IF value # PyNone
    THEN IF ~Contains(column_type, "datetime") /\ ~Contains(Str(value), "NOT_PROVIDED")
         THEN RunSql(c, SetDefault(table, column_name, <<value.v>>))
         ELSE c
    ELSE RunSql(c, ModifyColumn(table, column_name, column_type))

RECURSIVE SetDefaultEach(_, _, _, _, _)
SetDefaultEach(c, tables, column_name, column_type, default_value) ==
    IF tables = <<>> THEN c
    ELSE SetDefaultEach(SetDefaultOne(c, Head(tables), column_name, column_type,
                                      TranslateDefault(default_value)),
                        Tail(tables), column_name, column_type,
                        TranslateDefault(default_value))

RECURSIVE AddForeignKeyEach(_, _, _, _)
AddForeignKeyEach(c, tables, field_name, fk_table) ==
    IF tables = <<>> THEN c
    ELSE Let(RunSql(c, SelectForeignKey(field_name, Head(tables))), LAMBDA r :
         AddForeignKeyEach(IF Len(r.rows) = 0
                           THEN RunSql(r, AddForeignKey(Head(tables), field_name, fk_table))
                           ELSE r,
                           Tail(tables), field_name, fk_table))

\* lines 183-228: the column is on the source; add it to the shards, compare indexes
CopyAdd(c, db_table, tables, name, foreign_key, row, default_value) ==
    Let(AddColumnEach(c, tables, name, row.name, row.type,
                      AddDefaultClause(row.nullable, row.type, default_value)), LAMBDA a :
        [c |-> CompareIndexes(a, db_table, tables, name), field_name |-> name,
         foreign_key |-> foreign_key, dropped |-> FALSE])

\* lines 230-245: the column is not on the source; drop it from the shards
CopyDrop(c, tables, field_name) ==
    Let(RunSql(c, SelectColumn(tables[1], field_name)), LAMBDA d1 :
    Let(IF Len(d1.rows) = 0
        THEN RunSql(d1, SelectColumn(tables[1], WithId(field_name)))
        ELSE d1, LAMBDA d2 :
    Let(IF Len(d1.rows) = 0 /\ Len(d2.rows) > 0 THEN WithId(field_name) ELSE field_name,
        LAMBDA name :
        [c |-> DropColumnEach(d2, tables, name), field_name |-> name,
         foreign_key |-> FALSE, dropped |-> TRUE])))

\* lines 174-246: the source lookup, then the add path or the drop path
CopyAddOrDrop(g, db_table, tables, field_name, default_value) ==
    Let(RunSql(g, SelectColumn(db_table, field_name)), LAMBDA r1 :
    Let(IF Len(r1.rows) = 0
        THEN RunSql(r1, SelectColumn(db_table, WithId(field_name)))
        ELSE r1, LAMBDA r2 :
        IF Len(r2.rows) > 0
        THEN IF Len(r1.rows) = 0
             THEN CopyAdd(r2, db_table, tables, WithId(field_name), TRUE, r2.rows[1],
                          default_value)
             ELSE CopyAdd(r2, db_table, tables, field_name, FALSE, r2.rows[1],
                          default_value)
        ELSE CopyDrop(r2, tables, field_name)))

\* lines 250-256: propagate the width
CopyMaxLength(s, db_table, tables, max_length) ==
    IF max_length # "None" /\ ~s.c.created /\ ~s.dropped
    THEN Let(RunSql(s.c, SelectColumn(db_table, s.field_name)), LAMBDA r :
             [s EXCEPT !.c = IF Len(r.rows) > 0
                             THEN ModifyEach(r, tables, r.rows[1].name, r.rows[1].type)
                             ELSE r])
    ELSE s

\* lines 259-274: propagate the default
CopyDefault(s, db_table, tables, default_value) ==
    IF default_value # PyStr("") /\ ~s.c.created /\ ~s.dropped
    THEN Let(RunSql(s.c, SelectColumn(db_table, s.field_name)), LAMBDA r :
             [s EXCEPT !.c = IF Len(r.rows) > 0
                             THEN SetDefaultEach(r, tables, r.rows[1].name, r.rows[1].type,
                                                 default_value)
                             ELSE r])
    ELSE s

\* field_name.replace('_id', '')
RelatedModelName(field_name) == Replace(field_name, <<"_", "i", "d">>, <<>>)

\* lines 277-290: propagate the foreign key
CopyForeignKey(s, tables) ==
    IF s.foreign_key /\ ~s.dropped
    THEN LET found == {i \in 1..Len(AllModels) :
                          AllModels[i].name = RelatedModelName(s.field_name)}
         IN IF found = {} THEN s
            ELSE [s EXCEPT !.c = AddForeignKeyEach(s.c, tables, s.field_name,
                      AllModels[CHOOSE i \in found : \A j \in found : i <= j].db_table)]
    ELSE s

CopyTableChanges(c, db_table, field_name, default_value, max_length) ==
    Let(GetShardedTables(c, db_table), LAMBDA g :
        IF Len(g.rows) = 0 THEN g
        ELSE
        Let(CopyAddOrDrop(g, db_table, g.rows, field_name, default_value), LAMBDA s1 :
        Let(CopyMaxLength(s1, db_table, g.rows, max_length), LAMBDA s2 :
        Let(CopyDefault(s2, db_table, g.rows, default_value), LAMBDA s3 :
        Let(CopyForeignKey(s3, g.rows), LAMBDA s4 : CloseCursor(s4.c))))))

---------------------------------------------------------------------------
(* Command.remove_unique_together, Command.copy_unique_together *)

RECURSIVE DropUniqEach(_, _)
DropUniqEach(c, tables) ==
    IF tables = <<>> THEN c
    ELSE Let(RunSql(c, SelectUniqConstraints(Head(tables))), LAMBDA r :
         DropUniqEach(IF Len(r.rows) > 0
                      THEN RunSql(r, DropIndex(Head(tables), r.rows[1].name))
                      ELSE r,
                      Tail(tables)))

RemoveUniqueTogether(c, db_table) ==
    Let(GetShardedTables(c, db_table), LAMBDA g : CloseCursor(DropUniqEach(g, g.rows)))

\* for field_name in field_list: the real column, plain or with _id
RECURSIVE ResolveEach(_, _, _, _)
ResolveEach(c, db_table, field_list, real_field_list) ==
    IF field_list = <<>> THEN [c |-> c, real_field_list |-> real_field_list]
    ELSE Let(RunSql(c, SelectColumn(db_table, Head(field_list))), LAMBDA r1 :
         Let(IF Len(r1.rows) = 0
             THEN RunSql(r1, SelectColumn(db_table, WithId(Head(field_list))))
             ELSE r1, LAMBDA r2 :
         ResolveEach(r2, db_table, Tail(field_list),
                     Append(real_field_list,
                            IF Len(r1.rows) = 0 /\ Len(r2.rows) > 0
                            THEN WithId(Head(field_list)) ELSE Head(field_list)))))

RECURSIVE CreateUniqueEach(_, _, _, _)
CreateUniqueEach(c, tables, index_name, field_names) ==
    IF tables = <<>> THEN c
    ELSE CreateUniqueEach(RunSql(c, CreateUniqueIndex(index_name, Head(tables), field_names)),
                          Tail(tables), index_name, field_names)

\* '%s_uniq' % '_'.join(field_list)
UniqIndexName(field_list) == JoinAll(field_list, <<"_">>) \o <<"_", "u", "n", "i", "q">>

\* variant: the index is named after the resolved columns
CopyUniqueTogether_ResolvedName(c, db_table, field_list) ==
    Let(GetShardedTables(c, db_table), LAMBDA g :
    Let(ResolveEach(g, db_table, field_list, <<>>), LAMBDA res :
        CloseCursor(CreateUniqueEach(res.c, g.rows, UniqIndexName(res.real_field_list),
                                     res.real_field_list))))

CopyUniqueTogether(c, db_table, field_list) ==
    Let(GetShardedTables(c, db_table), LAMBDA g :
    Let(ResolveEach(g, db_table, field_list, <<>>), LAMBDA res :
        CloseCursor(CreateUniqueEach(res.c, g.rows, UniqIndexName(field_list),
                                     res.real_field_list))))

---------------------------------------------------------------------------
(* The migration plan: the host framework's operations and field objects *)

\* a field object: its class and the attributes the command and the host read
Field(class, max_length, null, default) ==
    [class |-> class, max_length |-> max_length, null |-> null, default |-> default]

CharNew == Field("CharField", "20", FALSE, PyStr("new"))
\* a nullable field may still carry a default
CharNull == Field("CharField", "10", TRUE, PyStr("new"))
BoolTrue == Field("BooleanField", "None", FALSE, PyTrue)
BoolFalse == Field("BooleanField", "None", FALSE, PyFalse)
DateAuto == Field("DateTimeField", "None", FALSE, NOT_PROVIDED)
BigInt == Field("BigIntegerField", "None", FALSE, NOT_PROVIDED)
\* ForeignKey(Owner, null=True): the field's name is the related model's
FkNull == Field("ForeignKey", "None", TRUE, NOT_PROVIDED)

\* the relations the command does not support on a sharded model (lines 71-74)
ManyToMany == Field("ManyToManyField", "None", FALSE, NOT_PROVIDED)
OneToOne == Field("OneToOneField", "None", TRUE, NOT_PROVIDED)

\* the fields a plan may add, and those it may alter an existing field to
AddFields == {CharNew, CharNull, BoolTrue, BoolFalse, DateAuto, BigInt, FkNull}
AlterFields == {CharNew, BigInt, BoolTrue, BoolFalse}

\* the field names of the plan: status, owner (a relation), and a new one
FieldS == <<"s">>
FieldO == <<"o">>
FieldT == <<"t">>
FieldNames == {FieldS, FieldO, FieldT}

AddFieldOp(model, name, field) ==
    [kind |-> "AddField", model_name |-> model, name |-> name, field |-> field]
AlterFieldOp(model, name, field) ==
    [kind |-> "AlterField", model_name |-> model, name |-> name, field |-> field]
RemoveFieldOp(model, name) ==
    [kind |-> "RemoveField", model_name |-> model, name |-> name]
RenameFieldOp(model, old, new) ==
    [kind |-> "RenameField", model_name |-> model, name |-> old,
     old_name |-> old, new_name |-> new]
\* unique_together holds the field tuples in the order the set iterates
AlterUniqueTogetherOp(model, unique_together) ==
    [kind |-> "AlterUniqueTogether", name |-> model, unique_together |-> unique_together]

\* hasattr(op, attr)
HasAttr(op, attr) == attr \in DOMAIN op

UniqueTogethers == { <<>>, << <<FieldS, FieldO>> >>, << <<FieldO, FieldS>> >> }

Operations ==
    {AddFieldOp(LeadModel, n, f) : n \in FieldNames, f \in AddFields}
    \cup {AlterFieldOp(LeadModel, n, f) : n \in FieldNames, f \in AlterFields \cup {FkNull}}
    \cup {RemoveFieldOp(LeadModel, n) : n \in FieldNames}
    \cup {RenameFieldOp(LeadModel, n, m) : n \in FieldNames, m \in FieldNames}
    \cup {AlterUniqueTogetherOp(LeadModel, u) : u \in UniqueTogethers}

---------------------------------------------------------------------------
(* The host migration (super().handle): what each operation does to the    *)
(* model's fields and to its table.  A model state maps field names to     *)
(* field objects.                                                          *)

IsRelation(field) == field.class \in {"ForeignKey", "OneToOneField"}

\* the column of a field: relations are stored as <name>_id
FieldColumn(name, field) == IF IsRelation(field) THEN WithId(name) ELSE name

\* the column type the host declares for a field
FieldType(field) ==
    CASE field.class = "CharField" -> Varchar(field.max_length)
      [] field.class = "BooleanField" -> TinyInt1
      [] field.class = "DateTimeField" -> DateTime6
      [] field.class = "BigIntegerField" -> BigIntType
      [] field.class \in {"IntegerField", "ForeignKey", "OneToOneField"} -> IntType

\* the Lead model before the run: its fields and its unique_together
InitialModel ==
    [fields |-> (FieldS :> Field("CharField", "10", FALSE, NOT_PROVIDED)) @@ (FieldO :> FkNull),
     unique_together |-> {<<FieldS, FieldO>>}]

TupleSet(unique_together) == {unique_together[i] : i \in 1..Len(unique_together)}

\* whether the host accepts op in model state ms
ValidOp(ms, op) ==
    CASE op.kind = "AddField" -> op.name \notin DOMAIN ms.fields
      [] op.kind = "AlterField" ->
            /\ op.name \in DOMAIN ms.fields
            /\ IsRelation(ms.fields[op.name]) = IsRelation(op.field)
      [] op.kind = "RemoveField" ->
            \* the host removes a field from unique_together before it removes the field
            /\ op.name \in DOMAIN ms.fields
            /\ \A u \in ms.unique_together : \A j \in 1..Len(u) : u[j] # op.name
      [] op.kind = "RenameField" ->
            op.old_name \in DOMAIN ms.fields /\ op.new_name \notin DOMAIN ms.fields
      [] op.kind = "AlterUniqueTogether" ->
            /\ TupleSet(op.unique_together) # ms.unique_together
            /\ \A u \in TupleSet(op.unique_together) :
                   \A j \in 1..Len(u) : u[j] \in DOMAIN ms.fields

RenameIn2(tuples, old, new) == {RenameIn(u, old, new) : u \in tuples}

StateApply(ms, op) ==
    LET fields == ms.fields
    IN
    CASE op.kind \in {"AddField", "AlterField"} ->
            [ms EXCEPT !.fields =
                [n \in DOMAIN fields \cup {op.name} |->
                    IF n = op.name THEN op.field ELSE fields[n]]]
      [] op.kind = "RemoveField" ->
            [ms EXCEPT !.fields = [n \in DOMAIN fields \ {op.name} |-> fields[n]]]
      [] op.kind = "RenameField" ->
            [ms EXCEPT
                !.fields = [n \in (DOMAIN fields \ {op.old_name}) \cup {op.new_name} |->
                               IF n = op.new_name THEN fields[op.old_name] ELSE fields[n]],
                !.unique_together = RenameIn2(@, op.old_name, op.new_name)]
      [] op.kind = "AlterUniqueTogether" ->
            [ms EXCEPT !.unique_together = TupleSet(op.unique_together)]

RECURSIVE ValidPlan(_, _)
ValidPlan(ms, p) ==
    p = <<>> \/ (ValidOp(ms, Head(p)) /\ ValidPlan(StateApply(ms, Head(p)), Tail(p)))

\* the names the host's schema editor gives what it creates ("h" stands for the digest)
HostForeignKeyName(table, column) == Join_(Join_(Join_(table, column), <<"h">>), <<"f", "k">>)
HostUniqueName(table, columns) ==
    Join_(Join_(Join_(table, JoinAll(columns, <<"_">>)), <<"h">>), <<"u", "n", "i", "q">>)


\* the columns of a unique_together tuple
TupleColumns(ms, u) == [j \in 1..Len(u) |-> FieldColumn(u[j], ms.fields[u[j]])]

NullFlag(field) == IF field.null THEN "YES" ELSE "NO"

\* the table a relation refers to: in the plans a relation is named after its
\* model; the relation t refers to Owner
RelatedTable(name) ==
    IF \E i \in 1..Len(AllModels) : AllModels[i].name = name
    THEN DbTable(name)
    ELSE OwnerTable

\* what the host's schema editor does to the model's table for op
HostApply(d, ms, op) ==
    LET t == DbTable(IF HasAttr(op, "model_name") THEN op.model_name ELSE op.name)
        T == d[t]
    IN
    CASE op.kind = "AddField" ->
            LET c == FieldColumn(op.name, op.field)
            IN [d EXCEPT ![t] = [T EXCEPT
                !.cols = @ \cup {[name |-> c, type |-> FieldType(op.field),
                                  nullable |-> NullFlag(op.field), default |-> NoDefault]},
                !.fks = IF IsRelation(op.field)
                        THEN @ \cup {[name |-> HostForeignKeyName(t, c), column |-> c,
                                      ref |-> RelatedTable(op.name)]}
                        ELSE @,
                !.idx = IF IsRelation(op.field)
                        THEN @ \cup {[name |-> HostForeignKeyName(t, c), cols |-> <<c>>,
                                      non_unique |-> 1]}
                        ELSE @]]
      [] op.kind = "AlterField" ->
            LET c == FieldColumn(op.name, op.field)
            IN [d EXCEPT ![t] = [T EXCEPT
                !.cols = {x \in @ : x.name # c} \cup
                         {[name |-> c, type |-> FieldType(op.field),
                           nullable |-> NullFlag(op.field), default |-> NoDefault]}]]
      [] op.kind = "RemoveField" ->
            LET c == FieldColumn(op.name, ms.fields[op.name])
            IN [d EXCEPT ![t] = [T EXCEPT
                !.cols = {x \in @ : x.name # c},
                !.fks = {x \in @ : x.column # c},
                !.idx = {[x EXCEPT !.cols = Without(@, c)] :
                            x \in {y \in @ : Without(y.cols, c) # <<>>}}]]
      [] op.kind = "RenameField" ->
            LET old == FieldColumn(op.old_name, ms.fields[op.old_name])
                new == FieldColumn(op.new_name, ms.fields[op.old_name])
            IN [d EXCEPT ![t] = [T EXCEPT
                !.cols = {x \in @ : x.name # old} \cup
                         {[TheColumn(d, t, old) EXCEPT !.name = new]},
                !.fks = {[x EXCEPT !.column = IF @ = old THEN new ELSE @] : x \in @},
                !.idx = {[x EXCEPT !.cols = RenameIn(@, old, new)] : x \in @}]]
      [] op.kind = "AlterUniqueTogether" ->
            LET news == TupleSet(op.unique_together)
                gone == {TupleColumns(ms, u) : u \in ms.unique_together \ news}
                added == {TupleColumns(ms, u) : u \in news \ ms.unique_together}
            IN [d EXCEPT ![t] = [T EXCEPT
                !.idx = {x \in @ : ~(x.non_unique = 0 /\ x.cols \in gone)} \cup
                        {[name |-> HostUniqueName(t, cols), cols |-> cols,
                          non_unique |-> 0] : cols \in added}]]

\* the whole plan, applied in order
RECURSIVE HostMigration(_, _, _)
HostMigration(d, ms, p) ==
    IF p = <<>> THEN d
    ELSE Let(HostApply(d, ms, Head(p)), LAMBDA d2 :
         Let(StateApply(ms, Head(p)), LAMBDA ms2 : HostMigration(d2, ms2, Tail(p))))

---------------------------------------------------------------------------
(* Command.handle: classification of the plan (lines 39-110) *)

\* models_with_shard: the models whose manager has `shard`
ModelsWithShard == {AllModels[i].name : i \in {j \in 1..Len(AllModels) : AllModels[j].sharded}}

\* for m in all_models: if name matches: db_table = meta.db_table; break
ModelsNamed(model_name) == {i \in 1..Len(AllModels) : AllModels[i].name = model_name}
FirstModelNamed(model_name) ==
    AllModels[CHOOSE i \in ModelsNamed(model_name) : \A j \in ModelsNamed(model_name) : i <= j]

NoWork == [model_changes |-> <<>>, add_unique_togethers |-> <<>>,
           remove_unique_togethers |-> <<>>, rename_fields |-> <<>>]

\* variant: the rename branch does not `continue`, the operation is queued twice
ClassifyFieldOp_RenameFallsThrough(w, op) ==
    IF op.model_name \notin ModelsWithShard THEN w
    ELSE IF HasAttr(op, "field")
            /\ op.field.class \in {"ManyToManyField", "OneToOneField"}
    THEN w
    ELSE LET w1 == IF HasAttr(op, "old_name") /\ HasAttr(op, "new_name")
                   THEN [w EXCEPT !.rename_fields =
                            Append(@, <<FirstModelNamed(op.model_name).db_table,
                                        op.old_name, op.new_name>>)]
                   ELSE w
             default_value == IF HasAttr(op, "field") THEN op.field.default ELSE PyStr("")
             max_length == IF HasAttr(op, "field") THEN op.field.max_length ELSE "None"
         IN [w1 EXCEPT !.model_changes =
                Append(@, <<FirstModelNamed(op.model_name).db_table, op.name,
                            default_value, max_length>>)]

\* lines 53-86: an operation with a model_name
ClassifyFieldOp(w, op) ==
    IF op.model_name \notin ModelsWithShard THEN w
    ELSE IF HasAttr(op, "old_name")
    THEN IF HasAttr(op, "new_name") /\ ModelsNamed(op.model_name) # {}
         THEN [w EXCEPT !.rename_fields =
                  Append(@, <<FirstModelNamed(op.model_name).db_table,
                              op.old_name, op.new_name>>)]
         ELSE w
    ELSE IF HasAttr(op, "field")
            /\ op.field.class \in {"ManyToManyField", "OneToOneField"}
    THEN w
    ELSE LET default_value == IF HasAttr(op, "field") THEN op.field.default ELSE PyStr("")
             max_length == IF HasAttr(op, "field") THEN op.field.max_length ELSE "None"
         IN IF ModelsNamed(op.model_name) # {}
            THEN [w EXCEPT !.model_changes =
                     Append(@, <<FirstModelNamed(op.model_name).db_table, op.name,
                                 default_value, max_length>>)]
            ELSE w

\* variant: field_list is the first field set of the operation
ClassifyUniqueOp_FirstSet(w, op) ==
    IF op.name \notin ModelsWithShard THEN w
    ELSE LET db_table == IF ModelsNamed(op.name) # {}
                         THEN FirstModelNamed(op.name).db_table ELSE <<>>
         IN IF Len(op.unique_together) = 0
            THEN [w EXCEPT !.remove_unique_togethers = Append(@, <<db_table>>)]
            ELSE [w EXCEPT !.add_unique_togethers =
                     Append(@, <<db_table, op.unique_together[1]>>)]

\* lines 88-110: an operation with unique_together
ClassifyUniqueOp(w, op) ==
    IF op.name \notin ModelsWithShard THEN w
    ELSE LET db_table == IF ModelsNamed(op.name) # {}
                         THEN FirstModelNamed(op.name).db_table ELSE <<>>
         IN IF Len(op.unique_together) = 0
            THEN [w EXCEPT !.remove_unique_togethers = Append(@, <<db_table>>)]
            ELSE \* field_list = list(f) of the last f the loop sees
                 LET field_list == op.unique_together[Len(op.unique_together)]
                 IN IF db_table # <<>>
                    THEN [w EXCEPT !.add_unique_togethers = Append(@, <<db_table, field_list>>)]
                    ELSE w

RECURSIVE ClassifyPlan(_, _)
ClassifyPlan(w, p) ==
    IF p = <<>> THEN w
    ELSE Let(IF HasAttr(Head(p), "model_name") THEN ClassifyFieldOp(w, Head(p))
             ELSE IF HasAttr(Head(p), "unique_together") THEN ClassifyUniqueOp(w, Head(p))
             ELSE w, LAMBDA w2 : ClassifyPlan(w2, Tail(p)))

---------------------------------------------------------------------------
(* The catalog before the run *)

IdColumn == [name |-> <<"i", "d">>, type |-> IntType, nullable |-> "NO", default |-> NoDefault]

\* the source table of Lead: status, the owner relation, unique_together (status, owner)
InitialSource ==
    [cols |-> {IdColumn,
               [name |-> FieldS, type |-> Varchar("10"), nullable |-> "NO",
                default |-> NoDefault],
               [name |-> WithId(FieldO), type |-> IntType, nullable |-> "YES",
                default |-> NoDefault]},
     fks |-> {[name |-> HostForeignKeyName(BaseTable, WithId(FieldO)),
               column |-> WithId(FieldO), ref |-> OwnerTable]},
     idx |-> {[name |-> HostForeignKeyName(BaseTable, WithId(FieldO)),
               cols |-> <<WithId(FieldO)>>, non_unique |-> 1],
              [name |-> HostUniqueName(BaseTable, <<FieldS, WithId(FieldO)>>),
               cols |-> <<FieldS, WithId(FieldO)>>, non_unique |-> 0]}]

\* a shard as this command leaves it: cloned when the model had only status,
\* the owner relation and the unique_together propagated by earlier runs
InitialShard(table) ==
    [cols |-> InitialSource.cols,
     fks |-> {[name |-> Join_(Join_(table, <<"i", "b", "f", "k">>), Suffix(1)),
               column |-> WithId(FieldO), ref |-> OwnerTable]},
     idx |-> {[name |-> WithId(FieldO), cols |-> <<WithId(FieldO)>>, non_unique |-> 1],
              [name |-> UniqIndexName(<<FieldS, FieldO>>),
               cols |-> <<FieldS, WithId(FieldO)>>, non_unique |-> 0]}]

InitialOwner == [cols |-> {IdColumn}, fks |-> {}, idx |-> {}]

\* the table of LeadNote, a model of its own
InitialNote ==
    [cols |-> {IdColumn,
               [name |-> FieldS, type |-> Varchar("10"), nullable |-> "NO",
                default |-> NoDefault]},
     fks |-> {}, idx |-> {}]

ShardTables(n) == {ShardTable(LeadModel, i) : i \in 1..n}

InitialDb(n, withNote) ==
    [t \in {BaseTable, OwnerTable, TidTable} \cup ShardTables(n)
           \cup (IF withNote THEN {NoteTable} ELSE {}) |->
        IF t = BaseTable THEN InitialSource
        ELSE IF t \in {OwnerTable, TidTable} THEN InitialOwner
        ELSE IF t = NoteTable THEN InitialNote
        ELSE InitialShard(t)]

Plans ==
    {p \in UNION {[1..k -> Operations] : k \in 1..MaxPlanLen} : ValidPlan(InitialModel, p)}

---------------------------------------------------------------------------
(* Command.handle as a state machine *)

Categories == <<"AddAlter", "UniqueAdd", "UniqueRemove", "Rename">>

Worklist(w, category) ==
    CASE category = "AddAlter" -> w.model_changes
      [] category = "UniqueAdd" -> w.add_unique_togethers
      [] category = "UniqueRemove" -> w.remove_unique_togethers
      [] category = "Rename" -> w.rename_fields

\* the first category from position k on whose worklist is not empty (lines 119-142)
RECURSIVE CategoryFrom(_, _)
CategoryFrom(w, k) ==
    IF k > Len(Categories) THEN "Done"
    ELSE IF Len(Worklist(w, Categories[k])) > 0 THEN Categories[k]
    ELSE CategoryFrom(w, k + 1)

CategoryIndex(category) == CHOOSE k \in 1..Len(Categories) : Categories[k] = category

\* the variables of the migrate command
\* no bulk_create call has been made
NoBulk == [called |-> FALSE, table_suffix |-> 0, list_of_dicts |-> <<>>, batch_size |-> 0,
           issued |-> <<>>, raised |-> ""]

migrateVars == <<db, plan, pc, model_changes, add_unique_togethers,
                 remove_unique_togethers, rename_fields, item, log, calls, failAt,
                 connFailAt>>

\* a context that has not touched the model
IdleContext == [pc |-> "idle", selected |-> <<>>, query |-> <<>>, found |-> FALSE,
                failed |-> FALSE]

Work == [model_changes |-> model_changes, add_unique_togethers |-> add_unique_togethers,
         remove_unique_togethers |-> remove_unique_togethers, rename_fields |-> rename_fields]

Init ==
    /\ \E n \in 0..MaxShards, withNote \in BOOLEAN : db = InitialDb(n, withNote)
    /\ plan \in Plans
    /\ pc = "Planned"
    /\ model_changes = <<>>
    /\ add_unique_togethers = <<>>
    /\ remove_unique_togethers = <<>>
    /\ rename_fields = <<>>
    /\ item = 1
    /\ log = <<>>
    /\ calls = <<>>
    /\ failAt = 0
    /\ connFailAt = 0
    /\ meta_db_table = BaseTable
    /\ contexts = [x \in 1..MaxContexts |-> IdleContext]
    /\ bulk = NoBulk

\* lines 46-113
Classify ==
    /\ pc = "Planned"
    /\ \E w \in {ClassifyPlan(NoWork, plan)} :
          /\ model_changes' = w.model_changes
          /\ add_unique_togethers' = w.add_unique_togethers
          /\ remove_unique_togethers' = w.remove_unique_togethers
          /\ rename_fields' = w.rename_fields
    /\ pc' = "Classified"
    /\ UNCHANGED <<db, plan, item, log, calls, failAt, connFailAt,
                   meta_db_table, contexts, bulk>>

\* line 116: the host migration changes the source table
HostMigrate ==
    /\ pc = "Classified"
    /\ db' = HostMigration(db, InitialModel, plan)
    /\ pc' = CategoryFrom(Work, 1)
    /\ UNCHANGED <<plan, model_changes, add_unique_togethers, remove_unique_togethers,
                   rename_fields, item, log, calls, failAt, connFailAt,
                   meta_db_table, contexts, bulk>>

\* variant: a category is left after its first item
Advance_FirstItemOnly(category, c, name, args) ==
    /\ db' = c.db
    /\ log' = c.log
    /\ calls' = Append(calls, [name |-> name, args |-> args, first |-> Len(log) + 1,
                               last |-> Len(c.log), pre |-> db, closed |-> c.closed])
    /\ item' = 1
    /\ pc' = CategoryFrom(Work, CategoryIndex(category) + 1)
    /\ UNCHANGED <<plan, model_changes, add_unique_togethers, remove_unique_togethers,
                   rename_fields, failAt, connFailAt,
                   meta_db_table, contexts, bulk>>

\* after a call: the next item of the worklist, or the next category
Advance(category, c, name, args) ==
    /\ db' = c.db
    /\ log' = c.log
    /\ calls' = Append(calls, [name |-> name, args |-> args, first |-> Len(log) + 1,
                               last |-> Len(c.log), pre |-> db, closed |-> c.closed])
    /\ IF item < Len(Worklist(Work, category))
       THEN item' = item + 1 /\ pc' = pc
       ELSE item' = 1 /\ pc' = CategoryFrom(Work, CategoryIndex(category) + 1)
    /\ UNCHANGED <<plan, model_changes, add_unique_togethers, remove_unique_togethers,
                   rename_fields, failAt, connFailAt,
                   meta_db_table, contexts, bulk>>

\* cursor = connections[db].cursor() raises at the start of this call
CursorRaises == Len(calls) + 1 = connFailAt

\* the exception leaves the call and Command.handle: nothing catches it
Abort ==
    /\ pc' = "Aborted"
    /\ UNCHANGED <<db, plan, model_changes, add_unique_togethers, remove_unique_togethers,
                   rename_fields, item, log, calls, failAt, connFailAt,
                   meta_db_table, contexts, bulk>>

\* lines 121-122
CallCopyTableChanges ==
    /\ pc = "AddAlter"
    /\ IF CursorRaises THEN Abort
       ELSE
       \E change \in {model_changes[item]} :
       \E c \in {CopyTableChanges(Ctx(db, log), change[1], change[2], change[3], change[4])} :
          Advance("AddAlter", c, "copy_table_changes", change)

\* lines 128-129
CallCopyUniqueTogether ==
    /\ pc = "UniqueAdd"
    /\ IF CursorRaises THEN Abort
       ELSE
       \E change \in {add_unique_togethers[item]} :
       \E c \in {CopyUniqueTogether(Ctx(db, log), change[1], change[2])} :
          Advance("UniqueAdd", c, "copy_unique_together", change)

\* lines 134-135
CallRemoveUniqueTogether ==
    /\ pc = "UniqueRemove"
    /\ IF CursorRaises THEN Abort
       ELSE
       \E change \in {remove_unique_togethers[item]} :
       \E c \in {RemoveUniqueTogether(Ctx(db, log), change[1])} :
          Advance("UniqueRemove", c, "remove_unique_together", change)

\* lines 140-141
CallRenameFields ==
    /\ pc = "Rename"
    /\ IF CursorRaises THEN Abort
       ELSE
       \E change \in {rename_fields[item]} :
       \E c \in {RenameFields(Ctx(db, log), change[1], change[2], change[3])} :
          Advance("Rename", c, "rename_fields", change)

Next ==
    \/ Classify
    \/ HostMigrate
    \/ CallCopyTableChanges
    \/ CallCopyUniqueTogether
    \/ CallRemoveUniqueTogether
    \/ CallRenameFields

Spec == Init /\ [][Next]_vars

---------------------------------------------------------------------------
(* Runs in which the database refuses one statement, or one connection *)

\* the largest statement number that may be the one that fails
MaxFailAt == 28

\* a plan with every kind of operation, for the runs with a failure
FailOperations ==
    {AddFieldOp(LeadModel, FieldT, CharNew),
     AlterFieldOp(LeadModel, FieldS, CharNew),
     RenameFieldOp(LeadModel, FieldS, FieldT),
     AlterUniqueTogetherOp(LeadModel, <<>>),
     AlterUniqueTogetherOp(LeadModel, << <<FieldO, FieldS>> >>)}

FailPlans ==
    {p \in UNION {[1..k -> FailOperations] : k \in 1..MaxPlanLen} : ValidPlan(InitialModel, p)}

InitWith(plans, fails, connFails) ==
    /\ \E n \in 1..MaxShards : db = InitialDb(n, FALSE)
    /\ plan \in plans
    /\ pc = "Planned"
    /\ model_changes = <<>>
    /\ add_unique_togethers = <<>>
    /\ remove_unique_togethers = <<>>
    /\ rename_fields = <<>>
    /\ item = 1
    /\ log = <<>>
    /\ calls = <<>>
    /\ failAt \in fails
    /\ connFailAt \in connFails
    /\ meta_db_table = BaseTable
    /\ contexts = [x \in 1..MaxContexts |-> IdleContext]
    /\ bulk = NoBulk

\* cursor.execute raises for one statement of the run
InitFail == InitWith(FailPlans, 1..MaxFailAt, {0})

SpecFail == InitFail /\ [][Next]_vars

\* connections[db].cursor() raises for one call of the run
InitConn == InitWith(Plans, {0}, 1..MaxPlanLen)

SpecConn == InitConn /\ [][Next]_vars

---------------------------------------------------------------------------
(* Runs that start with shards in different states *)

\* a shard an earlier run could not give the status column: the ADD COLUMN was
\* refused there, and so was the unique index that needs the column
StaleShard(table) ==
    [cols |-> {x \in InitialShard(table).cols : x.name # FieldS},
     fks |-> InitialShard(table).fks,
     idx |-> {x \in InitialShard(table).idx : \A j \in 1..Len(x.cols) : x.cols[j] # FieldS}]

\* the catalog in which the shards of `stale` are stale
MixedDb(n, stale) ==
    [t \in {BaseTable, OwnerTable, TidTable} \cup ShardTables(n) |->
        IF t = BaseTable THEN InitialSource
        ELSE IF t \in {OwnerTable, TidTable} THEN InitialOwner
        ELSE IF t \in stale THEN StaleShard(t)
        ELSE InitialShard(t)]

InitMixed ==
    /\ \E n \in 1..MaxShards : \E stale \in SUBSET ShardTables(n) : db = MixedDb(n, stale)
    /\ plan \in Plans
    /\ pc = "Planned"
    /\ model_changes = <<>>
    /\ add_unique_togethers = <<>>
    /\ remove_unique_togethers = <<>>
    /\ rename_fields = <<>>
    /\ item = 1
    /\ log = <<>>
    /\ calls = <<>>
    /\ failAt = 0
    /\ connFailAt = 0
    /\ meta_db_table = BaseTable
    /\ contexts = [x \in 1..MaxContexts |-> IdleContext]
    /\ bulk = NoBulk

SpecMixed == InitMixed /\ [][Next]_vars

---------------------------------------------------------------------------
(* Runs whose plans alter the status field to every kind of default *)

\* default='' is a default like any other to the host
CharEmpty == Field("CharField", "10", FALSE, PyStr(""))
\* default=None
CharNone == Field("CharField", "10", TRUE, PyNone)
BigIntNone == Field("BigIntegerField", "None", TRUE, PyNone)
\* a temporal field with a concrete default
DateNew == Field("DateTimeField", "None", FALSE, PyStr("new"))

DefaultFields ==
    {CharNew, CharEmpty, CharNone, BigIntNone, BigInt, BoolTrue, BoolFalse, DateAuto, DateNew}

DefaultOperations ==
    {AlterFieldOp(LeadModel, FieldS, f) : f \in DefaultFields}
    \cup {RenameFieldOp(LeadModel, FieldS, FieldT),
          AlterUniqueTogetherOp(LeadModel, <<>>),
          AlterUniqueTogetherOp(LeadModel, << <<FieldO, FieldS>> >>)}

DefaultPlans ==
    {p \in UNION {[1..k -> DefaultOperations] : k \in 1..MaxPlanLen} :
        ValidPlan(InitialModel, p)}

InitDefault == InitWith(DefaultPlans, {0}, {0})

SpecDefault == InitDefault /\ [][Next]_vars

---------------------------------------------------------------------------
(* Runs whose plans add a relation to a model with _id in its name *)

\* t_id = ForeignKey(T_Id, null=True): its column is t_id_id
FieldTId == TidModel

FkOperations ==
    {AddFieldOp(LeadModel, FieldTId, FkNull),
     AlterFieldOp(LeadModel, FieldTId, FkNull),
     AlterFieldOp(LeadModel, FieldO, FkNull),
     RenameFieldOp(LeadModel, FieldS, FieldT),
     AlterUniqueTogetherOp(LeadModel, <<>>),
     AlterUniqueTogetherOp(LeadModel, << <<FieldO, FieldS>> >>)}

FkPlans ==
    {p \in UNION {[1..k -> FkOperations] : k \in 1..MaxPlanLen} : ValidPlan(InitialModel, p)}

InitFk == InitWith(FkPlans, {0}, {0})

SpecFk == InitFk /\ [][Next]_vars

---------------------------------------------------------------------------
(* Runs whose plans replace the unique_together of Lead *)

ReplacingUniqueTogethers ==
    { <<>>, << <<FieldS, FieldT>> >>,
      << <<FieldS, FieldO>>, <<FieldS, FieldT>> >>,
      << <<FieldS, FieldT>>, <<FieldS, FieldO>> >> }

UniqueOperations ==
    {AddFieldOp(LeadModel, FieldT, CharNew),
     AddFieldOp(LeadModel, FieldT, BigInt),
     AlterFieldOp(LeadModel, FieldS, CharNew),
     RenameFieldOp(LeadModel, FieldS, FieldT)}
    \cup {AlterUniqueTogetherOp(LeadModel, u) : u \in ReplacingUniqueTogethers}

UniquePlans ==
    {p \in UNION {[1..k -> UniqueOperations] : k \in 1..MaxPlanLen} :
        ValidPlan(InitialModel, p)}

InitUnique == InitWith(UniquePlans, {0}, {0})

SpecUnique == InitUnique /\ [][Next]_vars

---------------------------------------------------------------------------
(* The application: execution contexts that select a table of Lead and     *)
(* query it (managers.py)                                                  *)

\* ShardManager.shard, lines 21-34: the table name is written to the model's _meta
Shard(x, table_suffix) ==
    /\ contexts[x].pc = "idle"
    /\ meta_db_table' = ShardTable(LeadModel, table_suffix)
    /\ contexts' = [contexts EXCEPT ![x] =
                        [IdleContext EXCEPT !.pc = "switched",
                                            !.selected = ShardTable(LeadModel, table_suffix)]]
    /\ UNCHANGED migrateVars
    /\ UNCHANGED bulk

\* ShardManager.default, lines 36-49
Default(x) ==
    /\ contexts[x].pc = "idle"
    /\ meta_db_table' = DbTable(LeadModel)
    /\ contexts' = [contexts EXCEPT ![x] =
                        [IdleContext EXCEPT !.pc = "switched",
                                            !.selected = DbTable(LeadModel)]]
    /\ UNCHANGED migrateVars
    /\ UNCHANGED bulk

\* ShardedModel.save, lines 159-165: the same write, before super().save
Save(x, shard) ==
    /\ contexts[x].pc = "idle"
    /\ meta_db_table' = ShardTable(LeadModel, shard)
    /\ contexts' = [contexts EXCEPT ![x] =
                        [IdleContext EXCEPT !.pc = "saving",
                                            !.selected = ShardTable(LeadModel, shard)]]
    /\ UNCHANGED migrateVars
    /\ UNCHANGED bulk

\* the queryset shard()/default() returned is evaluated, or super().save runs
\* (line 166): the statement is built from _meta.db_table as it is then
IssueQuery(x) ==
    /\ contexts[x].pc \in {"switched", "saving"}
    /\ contexts' = [contexts EXCEPT ![x].pc = "issued", ![x].query = meta_db_table]
    /\ UNCHANGED meta_db_table
    /\ UNCHANGED migrateVars
    /\ UNCHANGED bulk

\* the suffixes the application uses: 1 .. MaxShards and a longer one
LongSuffix == 10
ShardSuffixes == 1..MaxShards \cup {LongSuffix}

\* ShardManager.shard_exists, lines 128-144; `raises`: cursor() or execute raises
ShardExists(x, table_suffix, raises) ==
    /\ contexts[x].pc = "idle"
    /\ \E db_table \in {ShardTable(LeadModel, table_suffix)} :
       \E r \in {IF raises THEN Failed(db) ELSE Execute(db, ShowTablesLike(db_table))} :
          contexts' = [contexts EXCEPT ![x] =
                          [IdleContext EXCEPT !.pc = "checked",
                                              !.selected = db_table,
                                              !.found = Len(r.rows) > 0,
                                              !.failed = raises]]
    /\ UNCHANGED meta_db_table
    /\ UNCHANGED migrateVars
    /\ UNCHANGED bulk

\* the context is done with its result and may use the model again
Return(x) ==
    /\ contexts[x].pc \in {"issued", "checked"}
    /\ contexts' = [contexts EXCEPT ![x] = IdleContext]
    /\ UNCHANGED meta_db_table
    /\ UNCHANGED migrateVars
    /\ UNCHANGED bulk

NextShard ==
    \E x \in 1..MaxContexts :
        \/ \E table_suffix \in 1..MaxShards : Shard(x, table_suffix)
        \/ Default(x)
        \/ \E shard \in 1..MaxShards : Save(x, shard)
        \/ IssueQuery(x)
        \/ \E table_suffix \in ShardSuffixes, raises \in BOOLEAN :
              ShardExists(x, table_suffix, raises)
        \/ Return(x)

\* the catalog with the shards of the suffixes in S
ShardsDb(S) ==
    [t \in {BaseTable, OwnerTable, TidTable} \cup {ShardTable(LeadModel, i) : i \in S} |->
        IF t = BaseTable THEN InitialSource
        ELSE IF t \in {OwnerTable, TidTable} THEN InitialOwner
        ELSE InitialShard(t)]

\* no migration is running; some of the shards exist
InitShard ==
    /\ \E S \in SUBSET ShardSuffixes : db = ShardsDb(S)
    /\ plan = <<>>
    /\ pc = "Done"
    /\ model_changes = <<>>
    /\ add_unique_togethers = <<>>
    /\ remove_unique_togethers = <<>>
    /\ rename_fields = <<>>
    /\ item = 1
    /\ log = <<>>
    /\ calls = <<>>
    /\ failAt = 0
    /\ connFailAt = 0
    /\ meta_db_table = DbTable(LeadModel)
    /\ contexts = [x \in 1..MaxContexts |-> IdleContext]
    /\ bulk = NoBulk

SpecShard == InitShard /\ [][NextShard]_vars

---------------------------------------------------------------------------
(* Bulk insertion into a shard (managers.py, bulk_create and chunks)       *)

\* the longest list of rows and the largest batch size given to bulk_create
MaxRows == 5
MaxBatchSize == 2

\* the lists of rows: row i of the list is the dict numbered i
RowLists == {[i \in 1..n |-> i] : n \in 0..MaxRows}

Min(a, b) == IF a < b THEN a ELSE b

\* variant: the slice runs one row into the next chunk
RECURSIVE Chunks_Overlapping(_, _, _)
Chunks_Overlapping(source_list, batch_size, i) ==
    IF i >= Len(source_list) THEN <<>>
    ELSE <<SubSeq(source_list, i + 1, Min(i + batch_size + 1, Len(source_list)))>>
         \o Chunks_Overlapping(source_list, batch_size, i + batch_size)

\* chunks, lines 8-11: the slices source_list[i:i+batch_size] for
\* i = 0, batch_size, 2*batch_size, ... below len(source_list)
RECURSIVE Chunks(_, _, _)
Chunks(source_list, batch_size, i) ==
    IF i >= Len(source_list) THEN <<>>
    ELSE <<SubSeq(source_list, i + 1, Min(i + batch_size, Len(source_list)))>>
         \o Chunks(source_list, batch_size, i + batch_size)

\* the loop of bulk_create, lines 109-126, from chunk i on: for every chunk a
\* cursor is taken (outside the try: its exception leaves as it is) and
\* executemany is called (inside the try: any exception becomes ShardException).
\* The statement fails when the table does not exist or at batch `raisesAt`.
RECURSIVE InsertChunks(_, _, _, _, _, _, _)
InsertChunks(d, sql_op, db_table, n_chunks, i, raisesAt, cursorRaisesAt) ==
    IF i > Len(n_chunks) THEN [issued |-> <<>>, raised |-> ""]
    ELSE IF i = cursorRaisesAt THEN [issued |-> <<>>, raised |-> "OperationalError"]
    ELSE LET ok == HasTable(d, db_table) /\ i # raisesAt
             st == [op |-> sql_op, table |-> db_table, rows |-> n_chunks[i], ok |-> ok]
             rest == InsertChunks(d, sql_op, db_table, n_chunks, i + 1, raisesAt,
                                  cursorRaisesAt)
         IN  IF ~ok THEN [issued |-> <<st>>, raised |-> "ShardException"]
             ELSE [issued |-> <<st>> \o rest.issued, raised |-> rest.raised]

\* ShardManager.bulk_create, lines 84-126; one call is followed at a time
BulkCreate(table_suffix, list_of_dicts, batch_size, ignore_conflicts, raisesAt, cursorRaisesAt) ==
    /\ ~bulk.called
    /\ \E r \in {IF Len(list_of_dicts) = 0
                  THEN [issued |-> <<>>, raised |-> "ShardException"]
                  ELSE InsertChunks(db,
                                    IF ignore_conflicts THEN "INSERT IGNORE INTO"
                                    ELSE "INSERT INTO",
                                    ShardTable(LeadModel, table_suffix),
                                    Chunks(list_of_dicts, batch_size, 0), 1,
                                    raisesAt, cursorRaisesAt)} :
          bulk' = [called |-> TRUE, table_suffix |-> table_suffix,
                   list_of_dicts |-> list_of_dicts, batch_size |-> batch_size,
                   issued |-> r.issued, raised |-> r.raised]
    /\ UNCHANGED <<meta_db_table, contexts>>
    /\ UNCHANGED migrateVars

\* the caller is done with the outcome of the call
BulkReturn ==
    /\ bulk.called
    /\ bulk' = NoBulk
    /\ UNCHANGED <<meta_db_table, contexts>>
    /\ UNCHANGED migrateVars

NextBulk ==
    \/ \E table_suffix \in ShardSuffixes, list_of_dicts \in RowLists,
          batch_size \in 1..MaxBatchSize, ignore_conflicts \in BOOLEAN,
          raisesAt \in 0..MaxRows, cursorRaisesAt \in 0..MaxRows :
           BulkCreate(table_suffix, list_of_dicts, batch_size, ignore_conflicts, raisesAt,
                      cursorRaisesAt)
    \/ BulkReturn

\* some of the shards exist; shard() or default() left any of the table names
\* in _meta; no context is at work
InitBulk ==
    /\ \E S \in SUBSET ShardSuffixes : db = ShardsDb(S)
    /\ plan = <<>>
    /\ pc = "Done"
    /\ model_changes = <<>>
    /\ add_unique_togethers = <<>>
    /\ remove_unique_togethers = <<>>
    /\ rename_fields = <<>>
    /\ item = 1
    /\ log = <<>>
    /\ calls = <<>>
    /\ failAt = 0
    /\ connFailAt = 0
    /\ meta_db_table \in {DbTable(LeadModel)} \cup {ShardTable(LeadModel, i) : i \in 1..MaxShards}
    /\ contexts = [x \in 1..MaxContexts |-> IdleContext]
    /\ bulk = NoBulk

SpecBulk == InitBulk /\ [][NextBulk]_vars

---------------------------------------------------------------------------
(* The classification alone, over plans that also touch a model without     *)
(* shards and carry the relations the command skips                        *)

\* the LeadNote model before the run
InitialNoteModel ==
    [fields |-> (FieldS :> Field("CharField", "10", FALSE, NOT_PROVIDED)),
     unique_together |-> {}]

\* the model an operation is about
OpModel(op) == IF HasAttr(op, "model_name") THEN op.model_name ELSE op.name

ClassifyModels == {LeadModel, NoteModel}

\* unique_together of one operation, in the order its set iterates
ClassifyUniqueTogethers ==
    { <<>>, << <<FieldS, FieldO>> >>, << <<FieldO, FieldS>> >>,
      << <<FieldS, FieldO>>, <<FieldO, FieldS>> >>,
      << <<FieldO, FieldS>>, <<FieldS, FieldO>> >>,
      << <<FieldS, FieldT>> >> }

ClassifyOperations ==
    {AddFieldOp(m, n, f) : m \in ClassifyModels, n \in {FieldS, FieldT},
                           f \in {CharNew, FkNull, ManyToMany, OneToOne}}
    \cup {AlterFieldOp(m, FieldS, CharNew) : m \in ClassifyModels}
    \cup {AlterFieldOp(LeadModel, FieldO, OneToOne)}
    \cup {RemoveFieldOp(m, n) : m \in ClassifyModels, n \in {FieldS, FieldO}}
    \cup {RenameFieldOp(m, FieldS, FieldT) : m \in ClassifyModels}
    \cup {AlterUniqueTogetherOp(m, u) : m \in ClassifyModels, u \in ClassifyUniqueTogethers}

\* the operations of p on model m, in order
OpsOn(p, m) == SelectSeq(p, LAMBDA op : OpModel(op) = m)

\* a plan the host accepts: valid for each model it touches
ClassifyPlans ==
    {p \in UNION {[1..k -> ClassifyOperations] : k \in 1..MaxPlanLen} :
        /\ ValidPlan(InitialModel, OpsOn(p, LeadModel))
        /\ ValidPlan(InitialNoteModel, OpsOn(p, NoteModel))}

InitClassify == InitWith(ClassifyPlans, {0}, {0})

\* lines 46-113 and nothing after them
SpecClassify == InitClassify /\ [][Classify]_vars

---------------------------------------------------------------------------
(* Vocabulary of the properties *)

\* the physical shard tables of Lead that exist
RealShards == {t \in DOMAIN db : \E i \in 1..MaxShards : t = ShardTable(LeadModel, i)}

\* no statement of the run raised
NoStatementFailed == \A i \in 1..Len(log) : log[i].ok

\* the column names of a table with their types
NameTypes(T) == {[name |-> x.name, type |-> x.type] : x \in T.cols}

\* the plan holds field operations only
FieldPlan == \A i \in 1..Len(plan) : HasAttr(plan[i], "model_name")

\* the log entries of call k
Span(k) == calls[k].first .. calls[k].last

---------------------------------------------------------------------------
(* Properties *)

\* C1: when the run of a plan of field operations is Done and no statement
\* failed, every shard has exactly the source's column names, each with the
\* source's type.
C1_ColumnsConverge ==
    (pc = "Done" /\ FieldPlan /\ NoStatementFailed)
        => \A t \in RealShards : NameTypes(db[t]) = NameTypes(db[BaseTable])


\* the catalog after call k: the catalog before the next call, or the current one
PostDb(k) == IF k < Len(calls) THEN calls[k + 1].pre ELSE db

\* call k is operation `name` on the Lead table
IsCall(k, name) == calls[k].name = name /\ calls[k].args[1] = BaseTable

\* the column of field f on table T: f, or f_id when only that exists
ResolvedOn(T, f) ==
    IF \E x \in T.cols : x.name = f THEN {f}
    ELSE IF \E x \in T.cols : x.name = WithId(f) THEN {WithId(f)}
    ELSE {}

ColumnOf(T, c) == CHOOSE x \in T.cols : x.name = c

\* C2: when copy_table_changes has run for a field whose source column C is
\* nullable, no ADD COLUMN of the call carries a DEFAULT clause, and every
\* shard that lacked C has C with the source's type and no default.
C2_NullableAddNoDefault ==
    \A k \in 1..Len(calls) :
        IsCall(k, "copy_table_changes") =>
            \A C \in ResolvedOn(calls[k].pre[BaseTable], calls[k].args[2]) :
                ColumnOf(calls[k].pre[BaseTable], C).nullable = "YES" =>
                    /\ \A i \in Span(k) :
                           log[i].sql.op = "ADD COLUMN" => log[i].sql.default = {}
                    /\ \A t \in RealShards :
                           ~HasColumn(calls[k].pre, t, C) =>
                               /\ HasColumn(PostDb(k), t, C)
                               /\ TheColumn(PostDb(k), t, C).type =
                                      ColumnOf(calls[k].pre[BaseTable], C).type
                               /\ TheColumn(PostDb(k), t, C).default = NoDefault

\* C2 happens: a nullable column with a supplied default was added to a shard
C2_Witness ==
    \E k \in 1..Len(calls) :
        /\ IsCall(k, "copy_table_changes")
        /\ calls[k].args[3] = PyStr("new")
        /\ \E C \in ResolvedOn(calls[k].pre[BaseTable], calls[k].args[2]) :
               /\ ColumnOf(calls[k].pre[BaseTable], C).nullable = "YES"
               /\ \E t \in RealShards :
                      /\ ~HasColumn(calls[k].pre, t, C)
                      /\ HasColumn(PostDb(k), t, C)
                      /\ \E i \in Span(k) : log[i].sql.op = "ADD COLUMN"
                                            /\ log[i].sql.table = t

\* C3: when copy_table_changes runs for a field the source has neither as f
\* nor as f_id, then for every shard whose column carries a foreign key the
\* call issues DROP FOREIGN KEY for that constraint before every DROP COLUMN
\* to that shard, and it issues DROP COLUMN for the column to every shard.
C3_ForeignKeyDroppedFirst ==
    \A k \in 1..Len(calls) :
        (IsCall(k, "copy_table_changes")
         /\ ResolvedOn(calls[k].pre[BaseTable], calls[k].args[2]) = {}) =>
            \A t \in RealShards :
                \A f \in calls[k].pre[t].fks :
                    f.column \in ResolvedOn(calls[k].pre[t], calls[k].args[2]) =>
                        /\ \E j \in Span(k) : log[j].sql = DropColumn(t, f.column)
                        /\ \A j \in Span(k) :
                               (log[j].sql.op = "DROP COLUMN" /\ log[j].sql.table = t) =>
                                   \E i \in Span(k) :
                                       i < j /\ log[i].sql = DropForeignKey(t, f.name)

\* C3 happens: a relation's column was dropped from a shard that had its foreign key
C3_Witness ==
    \E k \in 1..Len(calls) :
        /\ IsCall(k, "copy_table_changes")
        /\ ResolvedOn(calls[k].pre[BaseTable], calls[k].args[2]) = {}
        /\ \E t \in RealShards :
               /\ \E f \in calls[k].pre[t].fks : f.column = WithId(calls[k].args[2])
               /\ ~HasColumn(PostDb(k), t, WithId(calls[k].args[2]))

\* the default literals of statement i
Literals(i) ==
    IF log[i].sql.op \in {"ADD COLUMN", "SET DEFAULT"} THEN log[i].sql.default ELSE {}

\* C4: in a call whose default is True every default literal generated, in
\* ADD COLUMN and in SET DEFAULT, is 1; in a call whose default is False, 0.
C4_BooleanLiterals ==
    \A k \in 1..Len(calls) :
        IsCall(k, "copy_table_changes") =>
            /\ calls[k].args[3] = PyTrue => \A i \in Span(k) : Literals(i) \subseteq {<<"1">>}
            /\ calls[k].args[3] = PyFalse => \A i \in Span(k) : Literals(i) \subseteq {<<"0">>}

\* C4 happens: the run generated a literal for True in ADD COLUMN and one for
\* False in SET DEFAULT
C4_Witness ==
    /\ \E k \in 1..Len(calls) :
           /\ IsCall(k, "copy_table_changes") /\ calls[k].args[3] = PyTrue
           /\ \E i \in Span(k) : log[i].sql.op = "ADD COLUMN" /\ Literals(i) # {}
    /\ \E k \in 1..Len(calls) :
           /\ IsCall(k, "copy_table_changes") /\ calls[k].args[3] = PyFalse
           /\ \E i \in Span(k) : log[i].sql.op = "SET DEFAULT" /\ Literals(i) # {}


\* the ADD COLUMN statements call k gave table t
AddsTo(k, t) == {i \in Span(k) : log[i].sql.op = "ADD COLUMN" /\ log[i].sql.table = t}

\* the source column that copy_table_changes call k is about, if it has one
CallColumn(k) ==
    IF IsCall(k, "copy_table_changes")
    THEN ResolvedOn(calls[k].pre[BaseTable], calls[k].args[2])
    ELSE {}

\* call k is an add/alter of a non-nullable, non-temporal column C of the
\* source with a concrete string default
ConcreteDefaultCall(k, C) ==
    /\ IsCall(k, "copy_table_changes")
    /\ calls[k].args[3].t = "str"
    /\ calls[k].args[3].v # ""
    /\ C \in CallColumn(k)
    /\ ColumnOf(calls[k].pre[BaseTable], C).nullable = "NO"
    /\ ~Contains(ColumnOf(calls[k].pre[BaseTable], C).type, "datetime")

\* C5: such a call gives each shard lacking the column exactly one ADD COLUMN,
\* with the source's type and DEFAULT d, right after an existence check on
\* that shard that returned no rows; a shard that has the column gets none.
C5_AddOncePerShard ==
    \A k \in 1..Len(calls) :
        \A C \in CallColumn(k) :
            ConcreteDefaultCall(k, C) =>
                \A t \in RealShards :
                    IF HasColumn(calls[k].pre, t, C)
                    THEN AddsTo(k, t) = {}
                    ELSE /\ Cardinality(AddsTo(k, t)) = 1
                         /\ \A i \in AddsTo(k, t) :
                                /\ log[i].sql =
                                       AddColumn(t, C,
                                                 ColumnOf(calls[k].pre[BaseTable], C).type,
                                                 {<<calls[k].args[3].v>>})
                                /\ i - 1 \in Span(k)
                                /\ log[i - 1].sql = SelectColumn(t, C)
                                /\ log[i - 1].rows = 0

\* C5 happens: one call added the column to a shard and a second call for the
\* same field found it there
C5_Witness ==
    \E k \in 1..Len(calls), m \in 1..Len(calls) :
        \E C \in CallColumn(k) \cap CallColumn(m) :
            /\ k < m
            /\ ConcreteDefaultCall(k, C)
            /\ ConcreteDefaultCall(m, C)
            /\ \E t \in RealShards :
                   /\ ~HasColumn(calls[k].pre, t, C)
                   /\ AddsTo(k, t) # {}
                   /\ HasColumn(calls[m].pre, t, C)

\* the column a shard stores field f in, before call k
ShardColumn(k, t, f) == ResolvedOn(calls[k].pre[t], f)

\* C6: after rename_fields(base, old, new) every shard that had the column of
\* `old` has the column of `new` instead, with the type `old` had.
C6_RenamePreservesType ==
    \A k \in 1..Len(calls) :
        IsCall(k, "rename_fields") =>
            \A t \in RealShards :
                \A c \in ShardColumn(k, t, calls[k].args[2]) :
                    LET new == IF c = calls[k].args[2] THEN calls[k].args[3]
                               ELSE WithId(calls[k].args[3])
                    IN /\ ~HasColumn(PostDb(k), t, c)
                       /\ HasColumn(PostDb(k), t, new)
                       /\ TheColumn(PostDb(k), t, new).type = TheColumn(calls[k].pre, t, c).type

\* the plain or _id column of each field of the list, as the source has them
RECURSIVE ResolvedColumns(_, _)
ResolvedColumns(T, field_list) ==
    IF field_list = <<>> THEN <<>>
    ELSE << IF \E x \in T.cols : x.name = Head(field_list) THEN Head(field_list)
            ELSE IF \E x \in T.cols : x.name = WithId(Head(field_list))
                 THEN WithId(Head(field_list))
                 ELSE Head(field_list) >>
         \o ResolvedColumns(T, Tail(field_list))

\* C7: copy_unique_together gives every shard exactly one CREATE UNIQUE INDEX,
\* named after the unresolved field names joined by "_" plus "_uniq", on the
\* resolved columns in order.
C7_UniqueIndexPerShard ==
    \A k \in 1..Len(calls) :
        IsCall(k, "copy_unique_together") =>
            \A t \in RealShards :
                /\ Cardinality({i \in Span(k) : log[i].sql.op = "CREATE UNIQUE INDEX"
                                                /\ log[i].sql.table = t}) = 1
                /\ \E i \in Span(k) :
                       log[i].sql =
                           CreateUniqueIndex(
                               JoinAll(calls[k].args[2], <<"_">>) \o <<"_", "u", "n", "i", "q">>,
                               t,
                               ResolvedColumns(calls[k].pre[BaseTable], calls[k].args[2]))

\* C7 happens: an index over a relation and a plain field was created on a shard
C7_Witness ==
    \E k \in 1..Len(calls) :
        /\ IsCall(k, "copy_unique_together")
        /\ ResolvedColumns(calls[k].pre[BaseTable], calls[k].args[2]) # calls[k].args[2]
        /\ \E t \in RealShards :
               \E x \in PostDb(k)[t].idx :
                   /\ x.name = JoinAll(calls[k].args[2], <<"_">>) \o <<"_", "u", "n", "i", "q">>
                   /\ x \notin calls[k].pre[t].idx

\* name ends in _uniq
EndsInUniq(name) ==
    /\ Len(name) >= 5
    /\ SubSeq(name, Len(name) - 4, Len(name)) = <<"_", "u", "n", "i", "q">>

\* C8: after remove_unique_together(base) no shard has a UNIQUE constraint
\* whose name ends in _uniq, and every other index of every shard is as before.
C8_AllUniqRemoved ==
    \A k \in 1..Len(calls) :
        IsCall(k, "remove_unique_together") =>
            \A t \in RealShards :
                /\ ~\E x \in PostDb(k)[t].idx : x.non_unique = 0 /\ EndsInUniq(x.name)
                /\ {x \in PostDb(k)[t].idx : ~EndsInUniq(x.name)}
                       = {x \in calls[k].pre[t].idx : ~EndsInUniq(x.name)}

\* C9: get_sharded_tables(base) returns exactly the existing shard tables of base.
C9_ExactlyTheShards ==
    LET tables == GetShardedTables(Ctx(db, <<>>), BaseTable).rows
    IN {tables[i] : i \in 1..Len(tables)} = RealShards

\* C10: when no shard table of base exists, no call on base issues DDL.
C10_NoShardsNoDDL ==
    RealShards = {} =>
        \A k \in 1..Len(calls) :
            calls[k].args[1] = BaseTable => \A i \in Span(k) : log[i].sql.op \notin DDL


\* the reconciliation call each category makes for an item of its worklist
CallName(category) ==
    CASE category = "AddAlter" -> "copy_table_changes"
      [] category = "UniqueAdd" -> "copy_unique_together"
      [] category = "UniqueRemove" -> "remove_unique_together"
      [] category = "Rename" -> "rename_fields"

\* the calls a complete run makes: every item of every worklist, category by category
RECURSIVE DueCalls(_)
DueCalls(k) ==
    IF k > Len(Categories) THEN <<>>
    ELSE [i \in 1..Len(Worklist(Work, Categories[k])) |->
             [name |-> CallName(Categories[k]), args |-> Worklist(Work, Categories[k])[i]]]
         \o DueCalls(k + 1)

\* the calls made so far, as (name, args)
MadeCalls == [k \in 1..Len(calls) |-> [name |-> calls[k].name, args |-> calls[k].args]]

\* the tables call k works on: those its SHOW TABLES returned
TablesOf(k) ==
    IF log[calls[k].first].ok
    THEN SortNames({t \in DOMAIN calls[k].pre :
                       /\ Like(t, calls[k].args[1] \o <<"%">>)
                       /\ t # calls[k].args[1]})
    ELSE <<>>

\* some statement of the run raised
SomeStatementFailed == \E i \in 1..Len(log) : ~log[i].ok

\* the failed statements of call k that were given to table t
FailedOn(k, t) ==
    {i \in Span(k) : ~log[i].ok /\ "table" \in DOMAIN log[i].sql /\ log[i].sql.table = t}

\* after a statement to a table failed, every later table of the call still
\* gets its statements
LaterTablesServed ==
    \A k \in 1..Len(calls) :
        \A T \in {TablesOf(k)} :
            \A a \in 1..Len(T) :
                \A i \in FailedOn(k, T[a]) :
                    \A b \in (a + 1)..Len(T) :
                        \E j \in Span(k) :
                            /\ j > i
                            /\ "table" \in DOMAIN log[j].sql
                            /\ log[j].sql.table = T[b]

\* a statement to one of the call's tables that failed is not given to the
\* database again
NothingRetried ==
    \A k \in 1..Len(calls) :
        \A T \in {TablesOf(k)} :
            \A a \in 1..Len(T) :
                \A i \in FailedOn(k, T[a]) :
                    i + 1 \in Span(k) => log[i + 1].sql # log[i].sql

\* the calls made so far are the first of the calls a complete run makes
CallsInOrder ==
    /\ Len(MadeCalls) <= Len(DueCalls(1))
    /\ MadeCalls = SubSeq(DueCalls(1), 1, Len(MadeCalls))

\* handle is at a step it can take: before the host migration, or in a category
\* at an item of its worklist
AtWork ==
    \/ pc \in {"Planned", "Classified"}
    \/ \E k \in 1..Len(Categories) :
           pc = Categories[k] /\ item \in 1..Len(Worklist(Work, Categories[k]))

\* C11: once a statement has failed, the run is never stopped short of Done
\* (in every state but Done handle is at a step it can take) and at Done the
\* call of every worklist item of every category has been made; when the statement was one
\* to a shard, the remaining shards of that item have been served and the
\* failed statement has not been given to the database a second time.
C11_FailureIsolated ==
    SomeStatementFailed =>
        /\ pc # "Done" => AtWork
        /\ pc = "Done" => MadeCalls = DueCalls(1)
        /\ CallsInOrder
        /\ LaterTablesServed
        /\ NothingRetried

\* C11 happens: a statement to the first of several shards failed in the first
\* of several calls, and the run is Done
C11_Witness ==
    /\ pc = "Done"
    /\ Len(calls) >= 2
    /\ failAt \in Span(1)
    /\ ~log[failAt].ok
    /\ Len(TablesOf(1)) >= 2
    /\ "table" \in DOMAIN log[failAt].sql
    /\ log[failAt].sql.table = TablesOf(1)[1]
    /\ log[failAt].sql.op \in DDL


\* C12: when the cursor of a call cannot be obtained, the run is not aborted:
\* handle is at Done or at a step it can take, in every state.
C12_ConnectionFailureCaught == pc = "Done" \/ AtWork


\* the source table as the host migration of the plan leaves it
MigratedSource ==
    HostMigration((BaseTable :> InitialSource), InitialModel, plan)[BaseTable]

\* the category a call belongs to
CategoryOfCall(k) == CHOOSE j \in 1..Len(Categories) : CallName(Categories[j]) = calls[k].name

\* C13: nothing is issued before the host migration has changed the source;
\* every statement belongs to the call of a worklist item; the calls are made
\* category by category in the order AddAlter, UniqueAdd, UniqueRemove,
\* Rename, each category's items in worklist order and all of them before the
\* next category starts; and at Done every item has had its call.
C13_CategoriesInOrder ==
    /\ pc \in {"Planned", "Classified"} => log = <<>> /\ calls = <<>>
    /\ \A k \in 1..Len(calls) : calls[k].pre[BaseTable] = MigratedSource
    /\ \A i \in 1..Len(log) : \E k \in 1..Len(calls) : i \in Span(k)
    /\ \A k \in 1..Len(calls) : \A m \in 1..Len(calls) :
           k < m => CategoryOfCall(k) <= CategoryOfCall(m)
    /\ \A j \in 1..Len(Categories) :
           SelectSeq(MadeCalls, LAMBDA x : x.name = CallName(Categories[j]))
               = LET W == Worklist(Work, Categories[j])
                     n == Cardinality({k \in 1..Len(calls) : CategoryOfCall(k) = j})
                 IN [i \in 1..n |-> [name |-> CallName(Categories[j]), args |-> W[i]]]
    /\ \A j \in 1..Len(Categories) :
           (pc = "Done" \/ \E k \in 1..Len(calls) : CategoryOfCall(k) > j) =>
               Cardinality({k \in 1..Len(calls) : CategoryOfCall(k) = j})
                   = Len(Worklist(Work, Categories[j]))

\* C13 happens: a run is Done whose plan names a rename before an add, and
\* the add's call came first
C13_Witness ==
    /\ pc = "Done"
    /\ Len(plan) = 2
    /\ plan[1].kind = "RenameField"
    /\ plan[2].kind = "AddField"
    /\ Len(calls) = 2
    /\ calls[1].name = "copy_table_changes"
    /\ calls[2].name = "rename_fields"
    /\ calls[1].first < calls[2].first

\* the operations of the plan that are a rename on a model with shards
IsShardedRename(op) ==
    /\ HasAttr(op, "model_name") /\ op.model_name = LeadModel
    /\ HasAttr(op, "old_name") /\ HasAttr(op, "new_name")

\* the field operations on a model with shards that are no rename and carry
\* no many-to-many or one-to-one field
IsShardedChange(op) ==
    /\ HasAttr(op, "model_name") /\ op.model_name = LeadModel
    /\ ~HasAttr(op, "old_name")
    /\ HasAttr(op, "field") => op.field.class \notin {"ManyToManyField", "OneToOneField"}

\* C14: after the classification the Rename worklist holds, in plan order, one
\* entry (table, old, new) for each rename on a sharded model, and the AddOrAlter
\* worklist holds, in plan order, one entry for each other field operation on a
\* sharded model whose field is not many-to-many or one-to-one; an operation on
\* a model without shards, or with such a field, has no entry in either
C14_FieldOpsClassified ==
    pc = "Classified" =>
        \A R \in {SelectSeq(plan, IsShardedRename)} :
        \A A \in {SelectSeq(plan, IsShardedChange)} :
            /\ Len(rename_fields) = Len(R)
            /\ \A i \in 1..Len(R) :
                   rename_fields[i] = <<BaseTable, R[i].old_name, R[i].new_name>>
            /\ Len(model_changes) = Len(A)
            /\ \A i \in 1..Len(A) :
                   /\ model_changes[i][1] = BaseTable
                   /\ model_changes[i][2] = A[i].name

\* a rename on the sharded model, then a many-to-many field added to it: one
\* Rename entry and nothing else
C14_Witness ==
    /\ pc = "Classified"
    /\ plan = <<RenameFieldOp(LeadModel, FieldS, FieldT),
                AddFieldOp(LeadModel, FieldS, ManyToMany)>>
    /\ rename_fields = << <<BaseTable, FieldS, FieldT>> >>
    /\ model_changes = <<>>

\* the unique-together operations of the plan on a model with shards
IsShardedUniqueRemove(op) ==
    /\ HasAttr(op, "unique_together") /\ op.name = LeadModel
    /\ op.unique_together = <<>>

IsShardedUniqueAdd(op) ==
    /\ HasAttr(op, "unique_together") /\ op.name = LeadModel
    /\ op.unique_together # <<>>

\* C15: after the classification the UniqueTogetherRemove worklist holds one
\* entry (table) for each unique-together operation on a sharded model whose list
\* is empty, and the UniqueTogetherAdd worklist holds one entry for each whose
\* list is not empty, with the last field set of that operation as field list
C15_UniqueOpsClassified ==
    pc = "Classified" =>
        \A R \in {SelectSeq(plan, IsShardedUniqueRemove)} :
        \A A \in {SelectSeq(plan, IsShardedUniqueAdd)} :
            /\ remove_unique_togethers = [i \in 1..Len(R) |-> <<BaseTable>>]
            /\ Len(add_unique_togethers) = Len(A)
            /\ \A i \in 1..Len(A) : \A u \in {A[i].unique_together} :
                   add_unique_togethers[i] = <<BaseTable, u[Len(u)]>>

\* one operation with two field sets: the entry carries the second
C15_Witness ==
    /\ pc = "Classified"
    /\ plan = <<AlterUniqueTogetherOp(LeadModel, << <<FieldS, FieldO>>, <<FieldO, FieldS>> >>)>>
    /\ add_unique_togethers = << <<BaseTable, <<FieldO, FieldS>> >> >>
    /\ remove_unique_togethers = <<>>

\* C16: the query a context issues goes to the table that context selected,
\* whatever another context selects meanwhile
C16_QueryHitsSelectedTable ==
    \A x \in 1..MaxContexts :
        contexts[x].pc = "issued" => contexts[x].query = contexts[x].selected

\* C17: every reconciliation call that has returned closed the cursor it obtained
C17_CursorsClosed ==
    \A k \in 1..Len(calls) : calls[k].closed

\* the indexes on column c of table t whose name does not end in _uniq
PlainIndexesOn(d, t, c) ==
    {x \in IndexesOn(d, t, c) : ~Like(x.name, <<"%", "_", "u", "n", "i", "q">>)}

\* shard t has the source's single-column index state for column c in catalog d
IndexParity(d, t, c) ==
    \A S \in {PlainIndexesOn(d, BaseTable, c)} :
    \A H \in {PlainIndexesOn(d, t, c)} :
        /\ S # {} <=> H # {}
        /\ S # {} =>
              /\ Cardinality(H) = 1
              /\ \A h \in H :
                     h.non_unique = IF RowsByName(S)[1].non_unique = 1 THEN 1 ELSE 0

\* C18: when copy_table_changes has run compare_indexes for a column of the
\* source and no statement of the call failed, every shard has a non-_uniq index
\* on the column exactly when the source has one, has one only, and it is unique
\* exactly when the source's is
C18_IndexParity ==
    \A k \in 1..Len(calls) : \A c \in CallColumn(k) :
        (\A i \in Span(k) : log[i].ok) =>
            \A d \in {PostDb(k)} :
                \A t \in RealShards : IndexParity(d, t, c)

\* call k is an attribute-only change of column c: the source has c and so
\* does every table the call serves, before the call
AttributeOnly(k, c) ==
    /\ c \in CallColumn(k)
    /\ \A T \in {TablesOf(k)} :
           /\ T # <<>>
           /\ \A j \in 1..Len(T) : HasColumn(calls[k].pre, T[j], c)

IndexStatements == {"DROP INDEX", "ADD INDEX", "ADD UNIQUE"}

\* C19: a copy_table_changes call that is an attribute-only change issues no
\* DROP INDEX, ADD INDEX or ADD UNIQUE
C19_NoIndexChurn ==
    \A k \in 1..Len(calls) : \A c \in CallColumn(k) :
        AttributeOnly(k, c) =>
            \A i \in Span(k) : log[i].sql.op \notin IndexStatements

\* the MODIFY statements call k sent to table t
ModifiesTo(k, t) == {i \in Span(k) : log[i].sql.op = "MODIFY" /\ log[i].sql.table = t}

\* C20: when copy_table_changes has run with a max_length for a column of the
\* source and no statement of the call failed, every shard has the column with
\* the source's type; and when every shard had the column before the call, each
\* shard was sent exactly one MODIFY, with the source's type
C20_WidthPropagated ==
    \A k \in 1..Len(calls) : \A c \in CallColumn(k) :
        (calls[k].args[4] # "None" /\ \A i \in Span(k) : log[i].ok) =>
            \A d \in {PostDb(k)} : \A type \in {ColumnOf(d[BaseTable], c).type} :
            \A t \in RealShards :
                /\ HasColumn(d, t, c)
                /\ ColumnOf(d[t], c).type = type
                /\ AttributeOnly(k, c) =>
                      /\ Cardinality(ModifiesTo(k, t)) = 1
                      /\ \A i \in ModifiesTo(k, t) :
                             log[i].sql.column = c /\ log[i].sql.type = type


\* the SET DEFAULT statements call k sent to table t
SetDefaultsTo(k, t) ==
    {i \in Span(k) : log[i].sql.op = "SET DEFAULT" /\ log[i].sql.table = t}

\* the literal a default is written as: True and False as 1 and 0
DefaultLiteral(value) ==
    IF value = PyTrue THEN <<"1">> ELSE IF value = PyFalse THEN <<"0">> ELSE <<value.v>>

\* C21: when copy_table_changes has run as an attribute-only change of a field
\* with default d, each table it serves was sent, for the default: one MODIFY
\* with the source's type when d is None; nothing when the column is temporal or
\* d is NOT_PROVIDED; one SET DEFAULT with d (True and False as 1 and 0)
\* otherwise.  (A MODIFY more when a max_length came with the item.)
C21_DefaultPropagated ==
    \A k \in 1..Len(calls) : \A c \in CallColumn(k) :
        AttributeOnly(k, c) =>
            \A T \in {TablesOf(k)} :
            \A type \in {ColumnOf(calls[k].pre[BaseTable], c).type} :
            \A d \in {calls[k].args[3]} :
            \A width \in {IF calls[k].args[4] # "None" THEN 1 ELSE 0} :
            \A j \in 1..Len(T) :
                /\ \A i \in ModifiesTo(k, T[j]) :
                       log[i].sql.column = c /\ log[i].sql.type = type
                /\ IF d = PyNone
                   THEN /\ SetDefaultsTo(k, T[j]) = {}
                        /\ Cardinality(ModifiesTo(k, T[j])) = width + 1
                   ELSE IF Contains(type, "datetime") \/ d = NOT_PROVIDED
                   THEN /\ SetDefaultsTo(k, T[j]) = {}
                        /\ Cardinality(ModifiesTo(k, T[j])) = width
                   ELSE /\ Cardinality(SetDefaultsTo(k, T[j])) = 1
                        /\ \A i \in SetDefaultsTo(k, T[j]) :
                               /\ log[i].sql.column = c
                               /\ log[i].sql.default = {DefaultLiteral(d)}
                        /\ Cardinality(ModifiesTo(k, T[j])) = width


\* field f resolves on the source only as f_id, and a model is named f
RelationCall(k, f) ==
    /\ IsCall(k, "copy_table_changes")
    /\ f = calls[k].args[2]
    /\ ~HasColumn(calls[k].pre, BaseTable, f)
    /\ HasColumn(calls[k].pre, BaseTable, WithId(f))
    /\ ModelsNamed(f) # {}

\* the foreign keys of table t in catalog d on column c that refer to table ref
ForeignKeysTo(d, t, c, ref) == {x \in d[t].fks : x.column = c /\ x.ref = ref}

\* the statements of kind op that call k sent to table t
SentTo(k, t, op) == {i \in Span(k) : log[i].sql.op = op /\ log[i].sql.table = t}

\* C22: when copy_table_changes has run for a field f that is on the source only
\* as column f_id, every shard has a foreign key on f_id that refers to the table
\* of the model named f; a shard that had one before the call was sent no ADD
\* FOREIGN KEY; and an ADD FOREIGN KEY follows the ADD COLUMN sent to its shard
C22_ForeignKeyPropagated ==
    \A k \in 1..Len(calls) :
    \A f \in {x \in FieldNames \cup {FieldTId} : RelationCall(k, x)} :
    \A d \in {PostDb(k)} :
    \A t \in RealShards :
        /\ ForeignKeysTo(d, t, WithId(f), DbTable(f)) # {}
        /\ ForeignKeysTo(calls[k].pre, t, WithId(f), DbTable(f)) # {}
              => SentTo(k, t, "ADD FOREIGN KEY") = {}
        /\ \A i \in SentTo(k, t, "ADD FOREIGN KEY") :
           \A j \in SentTo(k, t, "ADD COLUMN") : j < i


\* C23: copy_table_changes sends DROP COLUMN or DROP FOREIGN KEY for a field only
\* when the source has neither column <field> nor <field>_id, and sends ADD
\* COLUMN to a table only when that table lacks the column, also in runs in
\* which a statement fails
C23_DropOnlyWhenGone ==
    \A k \in 1..Len(calls) :
        IsCall(k, "copy_table_changes") =>
            \A f \in {calls[k].args[2]} : \A d \in {calls[k].pre} :
            \A i \in Span(k) : \A q \in {log[i].sql} :
                /\ q.op \in {"DROP COLUMN", "DROP FOREIGN KEY"} =>
                      /\ ~HasColumn(d, BaseTable, f)
                      /\ ~HasColumn(d, BaseTable, WithId(f))
                /\ q.op = "ADD COLUMN" => ~HasColumn(d, q.table, q.column)


\* C24: every ALTER TABLE and CREATE UNIQUE INDEX of a reconciliation call goes
\* to a table get_sharded_tables returned for the call and never to the table
\* the call was made for, and the call leaves that table as it was
C24_SourceOnlyRead ==
    \A k \in 1..Len(calls) :
        \A base \in {calls[k].args[1]} : \A T \in {TablesOf(k)} :
            /\ \A i \in Span(k) :
                   log[i].sql.op \in DDL =>
                       /\ log[i].sql.table # base
                       /\ \E j \in 1..Len(T) : T[j] = log[i].sql.table
            /\ PostDb(k)[base] = calls[k].pre[base]

\* a finished run in which a shard was altered and the base table was not
C24_Witness ==
    /\ pc = "Done"
    /\ Len(calls) >= 1
    /\ \E i \in Span(1) :
           /\ log[i].sql.op \in DDL
           /\ log[i].ok
           /\ log[i].sql.table = ShardTable(LeadModel, 1)
    /\ db[BaseTable] = calls[1].pre[BaseTable]
    /\ db[ShardTable(LeadModel, 1)] # calls[1].pre[ShardTable(LeadModel, 1)]


\* the column sets of the composite unique indexes of table t named .._uniq
UniqColumnSets(d, t) ==
    {{x.cols[j] : j \in 1..Len(x.cols)} :
        x \in {y \in d[t].idx : /\ y.non_unique = 0
                                /\ Len(y.cols) > 1
                                /\ Like(y.name, <<"%", "_", "u", "n", "i", "q">>)}}

\* the plan adds fields and sets unique_together to non-empty lists, at least once
ReplacesUniqueTogether ==
    /\ \E i \in 1..Len(plan) : plan[i].kind = "AlterUniqueTogether"
    /\ \A i \in 1..Len(plan) :
           \/ plan[i].kind = "AddField"
           \/ plan[i].kind = "AlterUniqueTogether" /\ plan[i].unique_together # <<>>

\* C25: when the run of such a plan is Done and no statement failed, the
\* composite unique indexes of every shard cover the same column sets as the
\* source's
C25_UniqueConverges ==
    (pc = "Done" /\ ReplacesUniqueTogether /\ NoStatementFailed) =>
        \A t \in RealShards : UniqColumnSets(db, t) = UniqColumnSets(db, BaseTable)


\* C26: shard_exists answers True exactly when its query did not fail and a
\* table with the very name <app_label>_<model>_<suffix> exists
C26_ShardExistsExact ==
    \A x \in 1..MaxContexts :
        contexts[x].pc = "checked" =>
            (contexts[x].found <=>
                (~contexts[x].failed /\ HasTable(db, contexts[x].selected)))


\* the rows of the batches, one after the other
RECURSIVE Concat(_)
Concat(batches) ==
    IF batches = <<>> THEN <<>> ELSE Head(batches).rows \o Concat(Tail(batches))

\* C27: bulk_create with an empty list raises ShardException and issues
\* nothing; with rows and a batch size of at least 1 every batch goes to the
\* table of the suffix, has at most batch_size rows, exactly batch_size unless it
\* is the last one, and the batches put end to end are the list (a call that ran
\* to its end) or its beginning (a call that stopped); a failed batch is the
\* last one issued and the call raised ShardException; and no call changes the
\* model's active table name
C27_BulkCreateBatches ==
    /\ [](bulk.called =>
            /\ (Len(bulk.list_of_dicts) = 0) =>
                    (bulk.raised = "ShardException" /\ bulk.issued = <<>>)
            /\ \A i \in 1..Len(bulk.issued) :
                    /\ bulk.issued[i].table = ShardTable(LeadModel, bulk.table_suffix)
                    /\ Len(bulk.issued[i].rows) \in 1..bulk.batch_size
                    /\ (i < Len(bulk.issued)
                         \/ Len(Concat(bulk.issued)) < Len(bulk.list_of_dicts))
                            => Len(bulk.issued[i].rows) = bulk.batch_size
                    /\ ~bulk.issued[i].ok =>
                            (i = Len(bulk.issued) /\ bulk.raised = "ShardException")
            /\ \A T \in {Concat(bulk.issued)} :
                    /\ Len(T) <= Len(bulk.list_of_dicts)
                    /\ T = SubSeq(bulk.list_of_dicts, 1, Len(T))
                    /\ bulk.raised = "" => T = bulk.list_of_dicts)
    /\ [][bulk'.called => meta_db_table' = meta_db_table]_vars

\* a call with more rows than two batches hold ran to its end, its last batch
\* short, while another shard's table was the active one
C27_Witness ==
    /\ bulk.called
    /\ bulk.raised = ""
    /\ Len(bulk.issued) >= 3
    /\ Len(bulk.issued[Len(bulk.issued)].rows) < bulk.batch_size
    /\ meta_db_table # ShardTable(LeadModel, bulk.table_suffix)
    /\ meta_db_table # DbTable(LeadModel)

====
